---- MODULE Spec2Model ----
(***************************************************************************)
(* Chunked voxel volume of sketches/marching-cubes (engine.cpp): the       *)
(* coordinate mapping, the chunk lattice, voxel edits with dirty           *)
(* propagation, chunk generation, the marching-cubes mesher and the        *)
(* dirty-flag accessors, as a state machine over one world.                *)
(*                                                                         *)
(* A uint8_t array is kept as a repeating fill pattern and the entries     *)
(* that differ from it: an index that is not stored reads the pattern      *)
(* (ArrayGet) and a write of the pattern's byte removes the index          *)
(* (ArraySet).  initVoxels memsets the arrays to the pattern <<0>>.        *)
(***************************************************************************)
EXTENDS Integers, Sequences, FiniteSets, TLC

(***************************************************************************)
(* Program constants                                                       *)
(***************************************************************************)
CHUNK_BITS == 4

CHUNK_SIZE == 2 ^ CHUNK_BITS

CHUNK_MASK == CHUNK_SIZE - 1

CHUNK_VOXELS == CHUNK_SIZE * CHUNK_SIZE * CHUNK_SIZE

ISOLEVEL == 128

(***************************************************************************)
(* Bounds of the model                                                     *)
(***************************************************************************)
\* number of state-changing calls explored after initVoxels
MaxCalls == 2

(***************************************************************************)
(* Two's-complement helpers for the signed int operations >> and &.        *)
(* For w < 0 the bits of w are the inverted bits of ~w = -w-1 >= 0.        *)
(***************************************************************************)
BitNot(w) == -w - 1

\* w / 2^k as the C++ division, which truncates toward zero
ShiftRightTruncating(w, k) ==
    IF w >= 0 THEN w \div (2 ^ k)
    ELSE -((-w) \div (2 ^ k))

\* w >> k on a signed int (arithmetic shift: the sign bit is replicated)
ShiftRight(w, k) ==
    IF w >= 0 THEN w \div (2 ^ k)
    ELSE BitNot(BitNot(w) \div (2 ^ k))

\* w & m for a mask m = 2^k - 1
BitAndMask(w, m) ==
    IF w >= 0 THEN w % (m + 1)
    ELSE m - (BitNot(w) % (m + 1))

\* v << k
ShiftLeft(v, k) == v * (2 ^ k)

(***************************************************************************)
(* uint8_t arrays                                                          *)
(***************************************************************************)
\* the array after memset(.., 0, ..)
ZeroArray == [fill |-> <<0>>, at |-> << >>]

\* the pattern's byte at index i
FillAt(arr, i) == arr.fill[(i % Len(arr.fill)) + 1]

ArrayGet(arr, i) == IF i \in DOMAIN arr.at THEN arr.at[i] ELSE FillAt(arr, i)

ArraySet(arr, i, v) ==
    IF v = FillAt(arr, i)
    THEN [arr EXCEPT !.at = [j \in DOMAIN arr.at \ {i} |-> arr.at[j]]]
    ELSE [arr EXCEPT !.at = [j \in DOMAIN arr.at \cup {i} |-> IF j = i THEN v ELSE arr.at[j]]]

\* arr after the writes W (index -> byte written)
ArrayOverwrite(arr, W) ==
    LET new(j) == IF j \in DOMAIN W THEN W[j] ELSE arr.at[j]
    IN [arr EXCEPT !.at = [k \in {j \in DOMAIN arr.at \cup DOMAIN W : new(j) # FillAt(arr, j)} |->
                              new(k)]]

\* the array that holds E[i] at the indices of E and the pattern elsewhere
ArrayPattern(pattern, E) ==
    LET fill == IF \A k \in DOMAIN pattern : pattern[k] = pattern[1]
                THEN <<pattern[1]>> ELSE pattern
    IN [fill |-> fill,
        at |-> [k \in {j \in DOMAIN E : E[j] # fill[(j % Len(fill)) + 1]} |-> E[k]]]

\* sum of arr[lo .. hi] for an array whose pattern is one byte, S being the
\* stored indices of lo .. hi: a range without one adds the pattern's byte
\* once per index
RECURSIVE ArraySum(_, _, _, _)
ArraySum(arr, S, lo, hi) ==
    IF S = {} THEN (hi - lo + 1) * arr.fill[1]
    ELSE IF lo = hi THEN ArrayGet(arr, lo)
    ELSE LET mid == (lo + hi) \div 2
         IN ArraySum(arr, {i \in S : i <= mid}, lo, mid)
            + ArraySum(arr, {i \in S : i > mid}, mid + 1, hi)

(***************************************************************************)
(* Coordinate mapping                                                      *)
(***************************************************************************)
ChunkBounds(xmin, xmax, ymin, ymax, zmin, zmax) ==
    [xmin |-> xmin, xmax |-> xmax, ymin |-> ymin, ymax |-> ymax,
     zmin |-> zmin, zmax |-> zmax]

\* the bool result of chunkCoordinateToIndex
chunkCoordinateInBounds(x, y, z, bounds) ==
    ~(x < bounds.xmin \/ x > bounds.xmax \/ y < bounds.ymin \/ y > bounds.ymax
      \/ z < bounds.zmin \/ z > bounds.zmax)

\* outIndex of chunkCoordinateToIndex (meaningful when it returns true)
chunkCoordinateToIndex(x, y, z, bounds) ==
    LET ys == bounds.ymax - bounds.ymin + 1
        zs == bounds.zmax - bounds.zmin + 1
        ox == x - bounds.xmin
        oy == y - bounds.ymin
        oz == z - bounds.zmin
    IN (ox * ys + oy) * zs + oz

\* chunkIndexToCoordinate for a layout with x as the fastest axis
chunkIndexToCoordinateXFastest(index, bounds) ==
    LET xs == bounds.xmax - bounds.xmin + 1
        ys == bounds.ymax - bounds.ymin + 1
        ox == index % xs
        rem == index \div xs
        oy == rem % ys
        oz == rem \div ys
    IN <<ox + bounds.xmin, oy + bounds.ymin, oz + bounds.zmin>>

chunkIndexToCoordinate(index, bounds) ==
    LET ys == bounds.ymax - bounds.ymin + 1
        zs == bounds.zmax - bounds.zmin + 1
        plane == ys * zs
        ox == index \div plane
        rem == index % plane
        oy == rem \div zs
        oz == rem % zs
    IN <<ox + bounds.xmin, oy + bounds.ymin, oz + bounds.zmin>>

worldPositionToChunkCoordinates(wx, wy, wz) ==
    <<ShiftRight(wx, CHUNK_BITS), ShiftRight(wy, CHUNK_BITS), ShiftRight(wz, CHUNK_BITS)>>

worldPositionToChunkPosition(wx, wy, wz) ==
    <<BitAndMask(wx, CHUNK_MASK), BitAndMask(wy, CHUNK_MASK), BitAndMask(wz, CHUNK_MASK)>>

\* getVoxelIndex with the y stride of a row instead of a plane
getVoxelIndexRowStride(lx, ly, lz) ==
    lx + lz * CHUNK_SIZE + ly * CHUNK_SIZE

getVoxelIndex(lx, ly, lz) ==
    lx + lz * CHUNK_SIZE + ly * CHUNK_SIZE * CHUNK_SIZE

(***************************************************************************)
(* World construction                                                      *)
(***************************************************************************)
totalChunks(bounds) ==
    (bounds.xmax - bounds.xmin + 1) * (bounds.ymax - bounds.ymin + 1)
        * (bounds.zmax - bounds.zmin + 1)

\* the allocation loop without the reset of the dirty flag
NewChunkFlagSet(i, bounds) ==
    LET c == chunkIndexToCoordinate(i, bounds)
    IN [id |-> i, x |-> c[1], y |-> c[2], z |-> c[3],
        value |-> ZeroArray, color |-> ZeroArray,
        sum |-> 0, dirtyMesh |-> TRUE]

\* one iteration of the allocation loop of initVoxels
NewChunk(i, bounds) ==
    LET c == chunkIndexToCoordinate(i, bounds)
    IN [id |-> i, x |-> c[1], y |-> c[2], z |-> c[3],
        value |-> ZeroArray, color |-> ZeroArray,
        sum |-> 0, dirtyMesh |-> FALSE]

initVoxels(xmin, xmax, ymin, ymax, zmin, zmax) ==
    LET bounds == ChunkBounds(xmin, xmax, ymin, ymax, zmin, zmax)
    IN [bounds |-> bounds,
        chunks |-> [i \in 0 .. totalChunks(bounds) - 1 |-> NewChunk(i, bounds)]]

(***************************************************************************)
(* Voxel edits and reads                                                   *)
(***************************************************************************)
\* markChunkDirty applied to the chunk array
\* markChunkDirty storing false instead of true
markChunkDirtyCleared(chunks, bounds, cx, cy, cz) ==
    IF chunkCoordinateInBounds(cx, cy, cz, bounds)
    THEN [chunks EXCEPT ![chunkCoordinateToIndex(cx, cy, cz, bounds)].dirtyMesh = FALSE]
    ELSE chunks

markChunkDirty(chunks, bounds, cx, cy, cz) ==
    IF chunkCoordinateInBounds(cx, cy, cz, bounds)
    THEN [chunks EXCEPT ![chunkCoordinateToIndex(cx, cy, cz, bounds)].dirtyMesh = TRUE]
    ELSE chunks

\* the boundary tests without the edge and corner cases
DirtyRulesFacesOnly(cx, cy, cz, lx, ly, lz) ==
    <<
        <<lx = 0, <<cx - 1, cy, cz>> >>,
        <<lx # 0 /\ lx = CHUNK_SIZE - 1, <<cx + 1, cy, cz>> >>,
        <<ly = 0, <<cx, cy - 1, cz>> >>,
        <<ly # 0 /\ ly = CHUNK_SIZE - 1, <<cx, cy + 1, cz>> >>,
        <<lz = 0, <<cx, cy, cz - 1>> >>,
        <<lz # 0 /\ lz = CHUNK_SIZE - 1, <<cx, cy, cz + 1>> >>
    >>

\* the boundary tests of setVoxel, in source order: each entry is the
\* condition of one if-statement and the chunk it marks
DirtyRules(cx, cy, cz, lx, ly, lz) ==
    LET lo == 0
        hi == CHUNK_SIZE - 1
    IN <<
        \* X boundaries (if / else if)
        <<lx = lo, <<cx - 1, cy, cz>> >>,
        <<lx # lo /\ lx = hi, <<cx + 1, cy, cz>> >>,
        \* Y boundaries
        <<ly = lo, <<cx, cy - 1, cz>> >>,
        <<ly # lo /\ ly = hi, <<cx, cy + 1, cz>> >>,
        \* Z boundaries
        <<lz = lo, <<cx, cy, cz - 1>> >>,
        <<lz # lo /\ lz = hi, <<cx, cy, cz + 1>> >>,
        \* XY edges
        <<lx = lo /\ ly = lo, <<cx - 1, cy - 1, cz>> >>,
        <<lx = lo /\ ly = hi, <<cx - 1, cy + 1, cz>> >>,
        <<lx = hi /\ ly = lo, <<cx + 1, cy - 1, cz>> >>,
        <<lx = hi /\ ly = hi, <<cx + 1, cy + 1, cz>> >>,
        \* XZ edges
        <<lx = lo /\ lz = lo, <<cx - 1, cy, cz - 1>> >>,
        <<lx = lo /\ lz = hi, <<cx - 1, cy, cz + 1>> >>,
        <<lx = hi /\ lz = lo, <<cx + 1, cy, cz - 1>> >>,
        <<lx = hi /\ lz = hi, <<cx + 1, cy, cz + 1>> >>,
        \* YZ edges
        <<ly = lo /\ lz = lo, <<cx, cy - 1, cz - 1>> >>,
        <<ly = lo /\ lz = hi, <<cx, cy - 1, cz + 1>> >>,
        <<ly = hi /\ lz = lo, <<cx, cy + 1, cz - 1>> >>,
        <<ly = hi /\ lz = hi, <<cx, cy + 1, cz + 1>> >>,
        \* corners
        <<lx = lo /\ ly = lo /\ lz = lo, <<cx - 1, cy - 1, cz - 1>> >>,
        <<lx = lo /\ ly = lo /\ lz = hi, <<cx - 1, cy - 1, cz + 1>> >>,
        <<lx = lo /\ ly = hi /\ lz = lo, <<cx - 1, cy + 1, cz - 1>> >>,
        <<lx = lo /\ ly = hi /\ lz = hi, <<cx - 1, cy + 1, cz + 1>> >>,
        <<lx = hi /\ ly = lo /\ lz = lo, <<cx + 1, cy - 1, cz - 1>> >>,
        <<lx = hi /\ ly = lo /\ lz = hi, <<cx + 1, cy - 1, cz + 1>> >>,
        <<lx = hi /\ ly = hi /\ lz = lo, <<cx + 1, cy + 1, cz - 1>> >>,
        <<lx = hi /\ ly = hi /\ lz = hi, <<cx + 1, cy + 1, cz + 1>> >>
    >>

\* runs the if-statements k .. Len(rules) of setVoxel over the chunk array
RECURSIVE ApplyDirtyRules(_, _, _, _)
ApplyDirtyRules(chunks, bounds, rules, k) ==
    IF k > Len(rules) THEN chunks
    ELSE LET t == rules[k][2]
             marked == IF rules[k][1]
                       THEN markChunkDirty(chunks, bounds, t[1], t[2], t[3])
                       ELSE chunks
         IN ApplyDirtyRules(marked, bounds, rules, k + 1)

\* WriteVoxel with the green and blue bytes stored in each other's slot
WriteVoxelSwapped(chunk, voxelIndex, value, r, g, b) ==
    LET prevValue == ArrayGet(chunk.value, voxelIndex)
        color1 == ArraySet(chunk.color, voxelIndex * 3 + 0, r)
        color2 == ArraySet(color1, voxelIndex * 3 + 1, b)
        color3 == ArraySet(color2, voxelIndex * 3 + 2, g)
    IN [chunk EXCEPT !.value = ArraySet(chunk.value, voxelIndex, value),
                     !.color = color3,
                     !.sum = chunk.sum + value - prevValue,
                     !.dirtyMesh = TRUE]

\* WriteVoxel that adds the new density to sum without taking the previous
\* density off
WriteVoxelSumAdds(chunk, voxelIndex, value, r, g, b) ==
    LET color1 == ArraySet(chunk.color, voxelIndex * 3 + 0, r)
        color2 == ArraySet(color1, voxelIndex * 3 + 1, g)
        color3 == ArraySet(color2, voxelIndex * 3 + 2, b)
    IN [chunk EXCEPT !.value = ArraySet(chunk.value, voxelIndex, value),
                     !.color = color3,
                     !.sum = chunk.sum + value,
                     !.dirtyMesh = TRUE]

\* the write of density, color and sum into the owning chunk
WriteVoxel(chunk, voxelIndex, value, r, g, b) ==
    LET prevValue == ArrayGet(chunk.value, voxelIndex)
        color1 == ArraySet(chunk.color, voxelIndex * 3 + 0, r)
        color2 == ArraySet(color1, voxelIndex * 3 + 1, g)
        color3 == ArraySet(color2, voxelIndex * 3 + 2, b)
    IN [chunk EXCEPT !.value = ArraySet(chunk.value, voxelIndex, value),
                     !.color = color3,
                     !.sum = chunk.sum + value - prevValue,
                     !.dirtyMesh = TRUE]

\* setVoxel whose bounds test guards the write but not the neighbour marking
setVoxelUnguarded(w, wx, wy, wz, value, r, g, b) ==
    LET c == worldPositionToChunkCoordinates(wx, wy, wz)
        l == worldPositionToChunkPosition(wx, wy, wz)
        written == IF ~chunkCoordinateInBounds(c[1], c[2], c[3], w.bounds)
                   THEN w.chunks
                   ELSE [w.chunks EXCEPT ![chunkCoordinateToIndex(c[1], c[2], c[3], w.bounds)] =
                            WriteVoxel(w.chunks[chunkCoordinateToIndex(c[1], c[2], c[3], w.bounds)],
                                       getVoxelIndex(l[1], l[2], l[3]), value, r, g, b)]
    IN [w EXCEPT !.chunks =
           ApplyDirtyRules(written, w.bounds,
               DirtyRules(c[1], c[2], c[3], l[1], l[2], l[3]), 1)]

\* setVoxel: the world after the call
setVoxel(w, wx, wy, wz, value, r, g, b) ==
    LET c == worldPositionToChunkCoordinates(wx, wy, wz)
        l == worldPositionToChunkPosition(wx, wy, wz)
    IN IF ~chunkCoordinateInBounds(c[1], c[2], c[3], w.bounds)
       THEN w
       ELSE LET chunkIndex == chunkCoordinateToIndex(c[1], c[2], c[3], w.bounds)
                voxelIndex == getVoxelIndex(l[1], l[2], l[3])
                written == [w.chunks EXCEPT ![chunkIndex] =
                               WriteVoxel(w.chunks[chunkIndex], voxelIndex, value, r, g, b)]
            IN [w EXCEPT !.chunks =
                   ApplyDirtyRules(written, w.bounds,
                       DirtyRules(c[1], c[2], c[3], l[1], l[2], l[3]), 1)]

\* the sample read from one chunk: <<value, r, g, b>>
ReadVoxel(chunk, voxelIndex) ==
    <<ArrayGet(chunk.value, voxelIndex),
      ArrayGet(chunk.color, voxelIndex * 3 + 0),
      ArrayGet(chunk.color, voxelIndex * 3 + 1),
      ArrayGet(chunk.color, voxelIndex * 3 + 2)>>

\* getVoxel that wraps the chunk coordinate into the lattice instead of testing it
getVoxelWrapped(w, x, y, z) ==
    LET c == worldPositionToChunkCoordinates(x, y, z)
        l == worldPositionToChunkPosition(x, y, z)
        b == w.bounds
        wx == b.xmin + ((c[1] - b.xmin) % (b.xmax - b.xmin + 1))
        wy == b.ymin + ((c[2] - b.ymin) % (b.ymax - b.ymin + 1))
        wz == b.zmin + ((c[3] - b.zmin) % (b.zmax - b.zmin + 1))
    IN ReadVoxel(w.chunks[chunkCoordinateToIndex(wx, wy, wz, b)],
                 getVoxelIndex(l[1], l[2], l[3]))

getVoxel(w, x, y, z) ==
    LET c == worldPositionToChunkCoordinates(x, y, z)
        l == worldPositionToChunkPosition(x, y, z)
    IN IF ~chunkCoordinateInBounds(c[1], c[2], c[3], w.bounds)
       THEN <<0, 0, 0, 0>>
       ELSE ReadVoxel(w.chunks[chunkCoordinateToIndex(c[1], c[2], c[3], w.bounds)],
                      getVoxelIndex(l[1], l[2], l[3]))

\* getVoxelRelative that masks the offsets into the chunk itself
getVoxelRelativeWrapped(w, chunk, lx, ly, lz) ==
    ReadVoxel(chunk, getVoxelIndex(BitAndMask(lx, CHUNK_MASK), BitAndMask(ly, CHUNK_MASK),
                                   BitAndMask(lz, CHUNK_MASK)))

getVoxelRelative(w, chunk, lx, ly, lz) ==
    IF lx >= 0 /\ lx < CHUNK_SIZE /\ ly >= 0 /\ ly < CHUNK_SIZE
       /\ lz >= 0 /\ lz < CHUNK_SIZE
    THEN ReadVoxel(chunk, getVoxelIndex(lx, ly, lz))
    ELSE getVoxel(w, ShiftLeft(chunk.x, CHUNK_BITS) + lx,
                     ShiftLeft(chunk.y, CHUNK_BITS) + ly,
                     ShiftLeft(chunk.z, CHUNK_BITS) + lz)

\* a chunk pointer is the chunk's index in world->chunks; Absent is nullptr
Absent == -1

getChunkAt(w, cx, cy, cz) ==
    IF ~chunkCoordinateInBounds(cx, cy, cz, w.bounds) THEN Absent
    ELSE chunkCoordinateToIndex(cx, cy, cz, w.bounds)

getChunkAtPos(w, wx, wy, wz) ==
    LET c == worldPositionToChunkCoordinates(wx, wy, wz)
    IN getChunkAt(w, c[1], c[2], c[3])

\* recomputeChunkSum: the value returned (and stored)
recomputeChunkSum(chunk) ==
    ArraySum(chunk.value, DOMAIN chunk.value.at, 0, CHUNK_VOXELS - 1)

(***************************************************************************)
(* Chunk generation                                                        *)
(*                                                                         *)
(* fbm3 is floating-point simplex noise.  The model does not compute it:   *)
(* NoiseField(seed) stands for its results in thousandths, for the         *)
(* solidity obtained from the first fbm3 call and the hue obtained from    *)
(* the second, each as a base value and the world positions where the      *)
(* result differs.  What generateChunk does with the noise is computed as  *)
(* in the source, with numbers in thousandths and the uint8_t casts as     *)
(* truncation.                                                             *)
(***************************************************************************)
NoiseField(seed) ==
    CASE seed = 1 ->
           [solidity |->
               [base |-> 0,
                at |-> (<<7, 7, 7>> :> 1000) @@ (<<0, 0, 0>> :> 502) @@ (<<-1, -1, -1>> :> 1000)
                       @@ (<<16, 0, -1>> :> 300) @@ (<<0, 7, 0>> :> 8) @@ (<<-1, 16, 0>> :> 11)],
            hue |->
               [base |-> 100,
                at |-> (<<7, 7, 7>> :> 950) @@ (<<0, 0, 0>> :> 400) @@ (<<-1, -1, -1>> :> 1000)
                       @@ (<<16, 0, -1>> :> 250) @@ (<<-1, 16, 0>> :> 600)]]
      [] seed = 2 -> [solidity |-> [base |-> 1000, at |-> << >>],
                      hue |-> [base |-> 0, at |-> << >>]]
      [] seed = 3 -> [solidity |-> [base |-> 400, at |-> << >>],
                      hue |-> [base |-> 700, at |-> << >>]]
      [] seed = 4 -> [solidity |-> [base |-> 1000, at |-> (<<7, 7, 7>> :> 0) @@ (<<0, 0, 0>> :> 300)],
                      hue |-> [base |-> 0, at |-> (<<0, 0, 0>> :> 500)]]
      [] OTHER -> [solidity |-> [base |-> 0, at |-> << >>],
                   hue |-> [base |-> 500, at |-> << >>]]

FieldAt(field, wx, wy, wz) ==
    IF <<wx, wy, wz>> \in DOMAIN field.at THEN field.at[<<wx, wy, wz>>] ELSE field.base

\* solidity after the smoothstep, in thousandths
Solidity(wx, wy, wz, seed) == FieldAt(NoiseField(seed).solidity, wx, wy, wz)

\* hue h in thousandths
Hue(wx, wy, wz, seed) == FieldAt(NoiseField(seed).hue, wx, wy, wz)

\* the HSV -> RGB switch with sCol = 0.8 and vCol = 1.0: <<r, g, b>> in thousandths
HueToRgb(h) ==
    LET ih == (h * 6) \div 1000
        fh == h * 6 - ih * 1000
        vCol == 1000
        p == 1000 - 800
        q == 1000 - (fh * 800) \div 1000
        t == 1000 - ((1000 - fh) * 800) \div 1000
        sector == ih % 6
    IN CASE sector = 0 -> <<vCol, t, p>>
         [] sector = 1 -> <<q, vCol, p>>
         [] sector = 2 -> <<p, vCol, t>>
         [] sector = 3 -> <<p, q, vCol>>
         [] sector = 4 -> <<t, p, vCol>>
         [] sector = 5 -> <<vCol, p, q>>

\* what is written for solidity and hue: <<density, finalR, finalG, finalB>>
VoxelFor(solidity, h) ==
    LET rgb == HueToRgb(h)
    IN <<(solidity * 255) \div 1000,
         (rgb[1] * solidity * 255) \div 1000000,
         (rgb[2] * solidity * 255) \div 1000000,
         (rgb[3] * solidity * 255) \div 1000000>>

\* the voxel written at a world position whose solidity is above 0.01
GeneratedVoxel(wx, wy, wz, seed) ==
    VoxelFor(Solidity(wx, wy, wz, seed), Hue(wx, wy, wz, seed))

\* the voxel indices of chunk (cx, cy, cz) where the noise is not at its base
SpecialVoxels(cx, cy, cz, seed) ==
    LET f == NoiseField(seed)
        inChunk(pos) == /\ pos[1] - cx * CHUNK_SIZE \in 0 .. CHUNK_SIZE - 1
                        /\ pos[2] - cy * CHUNK_SIZE \in 0 .. CHUNK_SIZE - 1
                        /\ pos[3] - cz * CHUNK_SIZE \in 0 .. CHUNK_SIZE - 1
        idx(pos) == (pos[1] - cx * CHUNK_SIZE) + (pos[3] - cz * CHUNK_SIZE) * CHUNK_SIZE
                      + (pos[2] - cy * CHUNK_SIZE) * CHUNK_SIZE * CHUNK_SIZE
    IN {idx(pos) : pos \in {q \in DOMAIN f.solidity.at \cup DOMAIN f.hue.at : inChunk(q)}}

\* the loops of generateChunk: the value and color arrays after them.  A
\* voxel is written only if its solidity exceeds 0.01; the others keep what
\* the chunk held.
GeneratedArrays(chunk, cx, cy, cz, seed) ==
    LET f == NoiseField(seed)
        wx(idx) == cx * CHUNK_SIZE + (idx % CHUNK_SIZE)
        wy(idx) == cy * CHUNK_SIZE + (idx \div (CHUNK_SIZE * CHUNK_SIZE))
        wz(idx) == cz * CHUNK_SIZE + ((idx \div CHUNK_SIZE) % CHUNK_SIZE)
        written(idx) == Solidity(wx(idx), wy(idx), wz(idx), seed) > 10
        voxel(idx) == GeneratedVoxel(wx(idx), wy(idx), wz(idx), seed)
        special == SpecialVoxels(cx, cy, cz, seed)
        base == VoxelFor(f.solidity.base, f.hue.base)
    IN IF f.solidity.base > 10
       THEN \* every voxel at base noise is written with the same bytes
            [value |-> ArrayPattern(<<base[1]>>,
                          [idx \in special |-> IF written(idx) THEN voxel(idx)[1]
                                               ELSE ArrayGet(chunk.value, idx)]),
             color |-> ArrayPattern(<<base[2], base[3], base[4]>>,
                          [ci \in {3 * idx + k : idx \in special, k \in 0 .. 2} |->
                              IF written(ci \div 3) THEN voxel(ci \div 3)[2 + (ci % 3)]
                              ELSE ArrayGet(chunk.color, ci)])]
       ELSE \* no voxel at base noise is written
            [value |-> ArrayOverwrite(chunk.value,
                          [idx \in {i \in special : written(i)} |-> voxel(idx)[1]]),
             color |-> ArrayOverwrite(chunk.color,
                          [ci \in {3 * idx + k : idx \in {i \in special : written(i)}, k \in 0 .. 2} |->
                              voxel(ci \div 3)[2 + (ci % 3)]])]

\* generateChunk without the final recomputeChunkSum
generateChunkStaleSum(chunk, cx, cy, cz, seed) ==
    LET arrays == GeneratedArrays(chunk, cx, cy, cz, seed)
    IN [chunk EXCEPT !.value = arrays.value, !.color = arrays.color]

\* generateChunk on a non-null chunk: the chunk after the call
generateChunk(chunk, cx, cy, cz, seed) ==
    LET arrays == GeneratedArrays(chunk, cx, cy, cz, seed)
        filled == [chunk EXCEPT !.value = arrays.value, !.color = arrays.color]
    IN [filled EXCEPT !.sum = recomputeChunkSum(filled)]

(***************************************************************************)
(* Marching-cubes tables                                                   *)
(***************************************************************************)
\* edgeTable[256] (hexadecimal in the source), indexed from 0 by EdgeTableAt
edgeTable ==
    <<
    0, 265, 515, 778, 1030, 1295, 1541, 1804,
    2060, 2309, 2575, 2822, 3082, 3331, 3593, 3840,
    400, 153, 915, 666, 1430, 1183, 1941, 1692,
    2460, 2197, 2975, 2710, 3482, 3219, 3993, 3728,
    560, 825, 51, 314, 1590, 1855, 1077, 1340,
    2620, 2869, 2111, 2358, 3642, 3891, 3129, 3376,
    928, 681, 419, 170, 1958, 1711, 1445, 1196,
    2988, 2725, 2479, 2214, 4010, 3747, 3497, 3232,
    1120, 1385, 1635, 1898, 102, 367, 613, 876,
    3180, 3429, 3695, 3942, 2154, 2403, 2665, 2912,
    1520, 1273, 2035, 1786, 502, 255, 1013, 764,
    3580, 3317, 4095, 3830, 2554, 2291, 3065, 2800,
    1616, 1881, 1107, 1370, 598, 863, 85, 348,
    3676, 3925, 3167, 3414, 2650, 2899, 2137, 2384,
    1984, 1737, 1475, 1226, 966, 719, 453, 204,
    4044, 3781, 3535, 3270, 3018, 2755, 2505, 2240,
    2240, 2505, 2755, 3018, 3270, 3535, 3781, 4044,
    204, 453, 719, 966, 1226, 1475, 1737, 1984,
    2384, 2137, 2899, 2650, 3414, 3167, 3925, 3676,
    348, 85, 863, 598, 1370, 1107, 1881, 1616,
    2800, 3065, 2291, 2554, 3830, 4095, 3317, 3580,
    764, 1013, 255, 502, 1786, 2035, 1273, 1520,
    2912, 2665, 2403, 2154, 3942, 3695, 3429, 3180,
    876, 613, 367, 102, 1898, 1635, 1385, 1120,
    3232, 3497, 3747, 4010, 2214, 2479, 2725, 2988,
    1196, 1445, 1711, 1958, 170, 419, 681, 928,
    3376, 3129, 3891, 3642, 2358, 2111, 2869, 2620,
    1340, 1077, 1855, 1590, 314, 51, 825, 560,
    3728, 3993, 3219, 3482, 2710, 2975, 2197, 2460,
    1692, 1941, 1183, 1430, 666, 915, 153, 400,
    3840, 3593, 3331, 3082, 2822, 2575, 2309, 2060,
    1804, 1541, 1295, 1030, 778, 515, 265, 0
    >>

\* triTable[256][16], indexed from 0 by TriTableAt
triTable ==
    <<
    <<-1, -1, -1, -1, -1, -1, -1, -1, -1, -1, -1, -1, -1, -1, -1, -1>>,
    <<0, 8, 3, -1, -1, -1, -1, -1, -1, -1, -1, -1, -1, -1, -1, -1>>,
    <<0, 1, 9, -1, -1, -1, -1, -1, -1, -1, -1, -1, -1, -1, -1, -1>>,
    <<1, 8, 3, 9, 8, 1, -1, -1, -1, -1, -1, -1, -1, -1, -1, -1>>,
    <<1, 2, 10, -1, -1, -1, -1, -1, -1, -1, -1, -1, -1, -1, -1, -1>>,
    <<0, 8, 3, 1, 2, 10, -1, -1, -1, -1, -1, -1, -1, -1, -1, -1>>,
    <<9, 2, 10, 0, 2, 9, -1, -1, -1, -1, -1, -1, -1, -1, -1, -1>>,
    <<2, 8, 3, 2, 10, 8, 10, 9, 8, -1, -1, -1, -1, -1, -1, -1>>,
    <<3, 11, 2, -1, -1, -1, -1, -1, -1, -1, -1, -1, -1, -1, -1, -1>>,
    <<0, 11, 2, 8, 11, 0, -1, -1, -1, -1, -1, -1, -1, -1, -1, -1>>,
    <<1, 9, 0, 2, 3, 11, -1, -1, -1, -1, -1, -1, -1, -1, -1, -1>>,
    <<1, 11, 2, 1, 9, 11, 9, 8, 11, -1, -1, -1, -1, -1, -1, -1>>,
    <<3, 10, 1, 11, 10, 3, -1, -1, -1, -1, -1, -1, -1, -1, -1, -1>>,
    <<0, 10, 1, 0, 8, 10, 8, 11, 10, -1, -1, -1, -1, -1, -1, -1>>,
    <<3, 9, 0, 3, 11, 9, 11, 10, 9, -1, -1, -1, -1, -1, -1, -1>>,
    <<9, 8, 10, 10, 8, 11, -1, -1, -1, -1, -1, -1, -1, -1, -1, -1>>,
    <<4, 7, 8, -1, -1, -1, -1, -1, -1, -1, -1, -1, -1, -1, -1, -1>>,
    <<4, 3, 0, 7, 3, 4, -1, -1, -1, -1, -1, -1, -1, -1, -1, -1>>,
    <<0, 1, 9, 8, 4, 7, -1, -1, -1, -1, -1, -1, -1, -1, -1, -1>>,
    <<4, 1, 9, 4, 7, 1, 7, 3, 1, -1, -1, -1, -1, -1, -1, -1>>,
    <<1, 2, 10, 8, 4, 7, -1, -1, -1, -1, -1, -1, -1, -1, -1, -1>>,
    <<3, 4, 7, 3, 0, 4, 1, 2, 10, -1, -1, -1, -1, -1, -1, -1>>,
    <<9, 2, 10, 9, 0, 2, 8, 4, 7, -1, -1, -1, -1, -1, -1, -1>>,
    <<2, 10, 9, 2, 9, 7, 2, 7, 3, 7, 9, 4, -1, -1, -1, -1>>,
    <<8, 4, 7, 3, 11, 2, -1, -1, -1, -1, -1, -1, -1, -1, -1, -1>>,
    <<11, 4, 7, 11, 2, 4, 2, 0, 4, -1, -1, -1, -1, -1, -1, -1>>,
    <<9, 0, 1, 8, 4, 7, 2, 3, 11, -1, -1, -1, -1, -1, -1, -1>>,
    <<4, 7, 11, 9, 4, 11, 9, 11, 2, 9, 2, 1, -1, -1, -1, -1>>,
    <<3, 10, 1, 3, 11, 10, 7, 8, 4, -1, -1, -1, -1, -1, -1, -1>>,
    <<1, 11, 10, 1, 4, 11, 1, 0, 4, 7, 11, 4, -1, -1, -1, -1>>,
    <<4, 7, 8, 9, 0, 11, 9, 11, 10, 11, 0, 3, -1, -1, -1, -1>>,
    <<4, 7, 11, 4, 11, 9, 9, 11, 10, -1, -1, -1, -1, -1, -1, -1>>,
    <<9, 5, 4, -1, -1, -1, -1, -1, -1, -1, -1, -1, -1, -1, -1, -1>>,
    <<9, 5, 4, 0, 8, 3, -1, -1, -1, -1, -1, -1, -1, -1, -1, -1>>,
    <<0, 5, 4, 1, 5, 0, -1, -1, -1, -1, -1, -1, -1, -1, -1, -1>>,
    <<8, 5, 4, 8, 3, 5, 3, 1, 5, -1, -1, -1, -1, -1, -1, -1>>,
    <<1, 2, 10, 9, 5, 4, -1, -1, -1, -1, -1, -1, -1, -1, -1, -1>>,
    <<3, 0, 8, 1, 2, 10, 4, 9, 5, -1, -1, -1, -1, -1, -1, -1>>,
    <<5, 2, 10, 5, 4, 2, 4, 0, 2, -1, -1, -1, -1, -1, -1, -1>>,
    <<2, 10, 5, 3, 2, 5, 3, 5, 4, 3, 4, 8, -1, -1, -1, -1>>,
    <<9, 5, 4, 2, 3, 11, -1, -1, -1, -1, -1, -1, -1, -1, -1, -1>>,
    <<0, 11, 2, 0, 8, 11, 4, 9, 5, -1, -1, -1, -1, -1, -1, -1>>,
    <<0, 5, 4, 0, 1, 5, 2, 3, 11, -1, -1, -1, -1, -1, -1, -1>>,
    <<2, 1, 5, 2, 5, 8, 2, 8, 11, 4, 8, 5, -1, -1, -1, -1>>,
    <<10, 3, 11, 10, 1, 3, 9, 5, 4, -1, -1, -1, -1, -1, -1, -1>>,
    <<4, 9, 5, 0, 8, 1, 8, 10, 1, 8, 11, 10, -1, -1, -1, -1>>,
    <<5, 4, 0, 5, 0, 11, 5, 11, 10, 11, 0, 3, -1, -1, -1, -1>>,
    <<5, 4, 8, 5, 8, 10, 10, 8, 11, -1, -1, -1, -1, -1, -1, -1>>,
    <<9, 7, 8, 5, 7, 9, -1, -1, -1, -1, -1, -1, -1, -1, -1, -1>>,
    <<9, 3, 0, 9, 5, 3, 5, 7, 3, -1, -1, -1, -1, -1, -1, -1>>,
    <<0, 7, 8, 0, 1, 7, 1, 5, 7, -1, -1, -1, -1, -1, -1, -1>>,
    <<1, 5, 3, 3, 5, 7, -1, -1, -1, -1, -1, -1, -1, -1, -1, -1>>,
    <<9, 7, 8, 9, 5, 7, 10, 1, 2, -1, -1, -1, -1, -1, -1, -1>>,
    <<10, 1, 2, 9, 5, 0, 5, 3, 0, 5, 7, 3, -1, -1, -1, -1>>,
    <<8, 0, 2, 8, 2, 5, 8, 5, 7, 10, 5, 2, -1, -1, -1, -1>>,
    <<2, 10, 5, 2, 5, 3, 3, 5, 7, -1, -1, -1, -1, -1, -1, -1>>,
    <<7, 9, 5, 7, 8, 9, 3, 11, 2, -1, -1, -1, -1, -1, -1, -1>>,
    <<9, 5, 7, 9, 7, 2, 9, 2, 0, 2, 7, 11, -1, -1, -1, -1>>,
    <<2, 3, 11, 0, 1, 8, 1, 7, 8, 1, 5, 7, -1, -1, -1, -1>>,
    <<11, 2, 1, 11, 1, 7, 7, 1, 5, -1, -1, -1, -1, -1, -1, -1>>,
    <<9, 5, 8, 8, 5, 7, 10, 1, 3, 10, 3, 11, -1, -1, -1, -1>>,
    <<5, 7, 0, 5, 0, 9, 7, 11, 0, 1, 0, 10, 11, 10, 0, -1>>,
    <<11, 10, 0, 11, 0, 3, 10, 5, 0, 8, 0, 7, 5, 7, 0, -1>>,
    <<11, 10, 5, 7, 11, 5, -1, -1, -1, -1, -1, -1, -1, -1, -1, -1>>,
    <<10, 6, 5, -1, -1, -1, -1, -1, -1, -1, -1, -1, -1, -1, -1, -1>>,
    <<0, 8, 3, 5, 10, 6, -1, -1, -1, -1, -1, -1, -1, -1, -1, -1>>,
    <<9, 0, 1, 5, 10, 6, -1, -1, -1, -1, -1, -1, -1, -1, -1, -1>>,
    <<1, 8, 3, 1, 9, 8, 5, 10, 6, -1, -1, -1, -1, -1, -1, -1>>,
    <<1, 6, 5, 2, 6, 1, -1, -1, -1, -1, -1, -1, -1, -1, -1, -1>>,
    <<1, 6, 5, 1, 2, 6, 3, 0, 8, -1, -1, -1, -1, -1, -1, -1>>,
    <<9, 6, 5, 9, 0, 6, 0, 2, 6, -1, -1, -1, -1, -1, -1, -1>>,
    <<5, 9, 8, 5, 8, 2, 5, 2, 6, 3, 2, 8, -1, -1, -1, -1>>,
    <<2, 3, 11, 10, 6, 5, -1, -1, -1, -1, -1, -1, -1, -1, -1, -1>>,
    <<11, 0, 8, 11, 2, 0, 10, 6, 5, -1, -1, -1, -1, -1, -1, -1>>,
    <<0, 1, 9, 2, 3, 11, 5, 10, 6, -1, -1, -1, -1, -1, -1, -1>>,
    <<5, 10, 6, 1, 9, 2, 9, 11, 2, 9, 8, 11, -1, -1, -1, -1>>,
    <<6, 3, 11, 6, 5, 3, 5, 1, 3, -1, -1, -1, -1, -1, -1, -1>>,
    <<0, 8, 11, 0, 11, 5, 0, 5, 1, 5, 11, 6, -1, -1, -1, -1>>,
    <<3, 11, 6, 0, 3, 6, 0, 6, 5, 0, 5, 9, -1, -1, -1, -1>>,
    <<6, 5, 9, 6, 9, 11, 11, 9, 8, -1, -1, -1, -1, -1, -1, -1>>,
    <<5, 10, 6, 4, 7, 8, -1, -1, -1, -1, -1, -1, -1, -1, -1, -1>>,
    <<4, 3, 0, 4, 7, 3, 6, 5, 10, -1, -1, -1, -1, -1, -1, -1>>,
    <<1, 9, 0, 5, 10, 6, 8, 4, 7, -1, -1, -1, -1, -1, -1, -1>>,
    <<10, 6, 5, 1, 9, 7, 1, 7, 3, 7, 9, 4, -1, -1, -1, -1>>,
    <<6, 1, 2, 6, 5, 1, 4, 7, 8, -1, -1, -1, -1, -1, -1, -1>>,
    <<1, 2, 5, 5, 2, 6, 3, 0, 4, 3, 4, 7, -1, -1, -1, -1>>,
    <<8, 4, 7, 9, 0, 5, 0, 6, 5, 0, 2, 6, -1, -1, -1, -1>>,
    <<7, 3, 9, 7, 9, 4, 3, 2, 9, 5, 9, 6, 2, 6, 9, -1>>,
    <<3, 11, 2, 7, 8, 4, 10, 6, 5, -1, -1, -1, -1, -1, -1, -1>>,
    <<5, 10, 6, 4, 7, 2, 4, 2, 0, 2, 7, 11, -1, -1, -1, -1>>,
    <<0, 1, 9, 4, 7, 8, 2, 3, 11, 5, 10, 6, -1, -1, -1, -1>>,
    <<9, 2, 1, 9, 11, 2, 9, 4, 11, 7, 11, 4, 5, 10, 6, -1>>,
    <<8, 4, 7, 3, 11, 5, 3, 5, 1, 5, 11, 6, -1, -1, -1, -1>>,
    <<5, 1, 11, 5, 11, 6, 1, 0, 11, 7, 11, 4, 0, 4, 11, -1>>,
    <<0, 5, 9, 0, 6, 5, 0, 3, 6, 11, 6, 3, 8, 4, 7, -1>>,
    <<6, 5, 9, 6, 9, 11, 4, 7, 9, 7, 11, 9, -1, -1, -1, -1>>,
    <<10, 4, 9, 6, 4, 10, -1, -1, -1, -1, -1, -1, -1, -1, -1, -1>>,
    <<4, 10, 6, 4, 9, 10, 0, 8, 3, -1, -1, -1, -1, -1, -1, -1>>,
    <<10, 0, 1, 10, 6, 0, 6, 4, 0, -1, -1, -1, -1, -1, -1, -1>>,
    <<8, 3, 1, 8, 1, 6, 8, 6, 4, 6, 1, 10, -1, -1, -1, -1>>,
    <<1, 4, 9, 1, 2, 4, 2, 6, 4, -1, -1, -1, -1, -1, -1, -1>>,
    <<3, 0, 8, 1, 2, 9, 2, 4, 9, 2, 6, 4, -1, -1, -1, -1>>,
    <<0, 2, 4, 4, 2, 6, -1, -1, -1, -1, -1, -1, -1, -1, -1, -1>>,
    <<8, 3, 2, 8, 2, 4, 4, 2, 6, -1, -1, -1, -1, -1, -1, -1>>,
    <<10, 4, 9, 10, 6, 4, 11, 2, 3, -1, -1, -1, -1, -1, -1, -1>>,
    <<0, 8, 2, 2, 8, 11, 4, 9, 10, 4, 10, 6, -1, -1, -1, -1>>,
    <<3, 11, 2, 0, 1, 6, 0, 6, 4, 6, 1, 10, -1, -1, -1, -1>>,
    <<6, 4, 1, 6, 1, 10, 4, 8, 1, 2, 1, 11, 8, 11, 1, -1>>,
    <<9, 6, 4, 9, 3, 6, 9, 1, 3, 11, 6, 3, -1, -1, -1, -1>>,
    <<8, 11, 1, 8, 1, 0, 11, 6, 1, 9, 1, 4, 6, 4, 1, -1>>,
    <<3, 11, 6, 3, 6, 0, 0, 6, 4, -1, -1, -1, -1, -1, -1, -1>>,
    <<6, 4, 8, 11, 6, 8, -1, -1, -1, -1, -1, -1, -1, -1, -1, -1>>,
    <<7, 10, 6, 7, 8, 10, 8, 9, 10, -1, -1, -1, -1, -1, -1, -1>>,
    <<0, 7, 3, 0, 10, 7, 0, 9, 10, 6, 7, 10, -1, -1, -1, -1>>,
    <<10, 6, 7, 1, 10, 7, 1, 7, 8, 1, 8, 0, -1, -1, -1, -1>>,
    <<10, 6, 7, 10, 7, 1, 1, 7, 3, -1, -1, -1, -1, -1, -1, -1>>,
    <<1, 2, 6, 1, 6, 8, 1, 8, 9, 8, 6, 7, -1, -1, -1, -1>>,
    <<2, 6, 9, 2, 9, 1, 6, 7, 9, 0, 9, 3, 7, 3, 9, -1>>,
    <<7, 8, 0, 7, 0, 6, 6, 0, 2, -1, -1, -1, -1, -1, -1, -1>>,
    <<7, 3, 2, 6, 7, 2, -1, -1, -1, -1, -1, -1, -1, -1, -1, -1>>,
    <<2, 3, 11, 10, 6, 8, 10, 8, 9, 8, 6, 7, -1, -1, -1, -1>>,
    <<2, 0, 7, 2, 7, 11, 0, 9, 7, 6, 7, 10, 9, 10, 7, -1>>,
    <<1, 8, 0, 1, 7, 8, 1, 10, 7, 6, 7, 10, 2, 3, 11, -1>>,
    <<11, 2, 1, 11, 1, 7, 10, 6, 1, 6, 7, 1, -1, -1, -1, -1>>,
    <<8, 9, 6, 8, 6, 7, 9, 1, 6, 11, 6, 3, 1, 3, 6, -1>>,
    <<0, 9, 1, 11, 6, 7, -1, -1, -1, -1, -1, -1, -1, -1, -1, -1>>,
    <<7, 8, 0, 7, 0, 6, 3, 11, 0, 11, 6, 0, -1, -1, -1, -1>>,
    <<7, 11, 6, -1, -1, -1, -1, -1, -1, -1, -1, -1, -1, -1, -1, -1>>,
    <<7, 6, 11, -1, -1, -1, -1, -1, -1, -1, -1, -1, -1, -1, -1, -1>>,
    <<3, 0, 8, 11, 7, 6, -1, -1, -1, -1, -1, -1, -1, -1, -1, -1>>,
    <<0, 1, 9, 11, 7, 6, -1, -1, -1, -1, -1, -1, -1, -1, -1, -1>>,
    <<8, 1, 9, 8, 3, 1, 11, 7, 6, -1, -1, -1, -1, -1, -1, -1>>,
    <<10, 1, 2, 6, 11, 7, -1, -1, -1, -1, -1, -1, -1, -1, -1, -1>>,
    <<1, 2, 10, 3, 0, 8, 6, 11, 7, -1, -1, -1, -1, -1, -1, -1>>,
    <<2, 9, 0, 2, 10, 9, 6, 11, 7, -1, -1, -1, -1, -1, -1, -1>>,
    <<6, 11, 7, 2, 10, 3, 10, 8, 3, 10, 9, 8, -1, -1, -1, -1>>,
    <<7, 2, 3, 6, 2, 7, -1, -1, -1, -1, -1, -1, -1, -1, -1, -1>>,
    <<7, 0, 8, 7, 6, 0, 6, 2, 0, -1, -1, -1, -1, -1, -1, -1>>,
    <<2, 7, 6, 2, 3, 7, 0, 1, 9, -1, -1, -1, -1, -1, -1, -1>>,
    <<1, 6, 2, 1, 8, 6, 1, 9, 8, 8, 7, 6, -1, -1, -1, -1>>,
    <<10, 7, 6, 10, 1, 7, 1, 3, 7, -1, -1, -1, -1, -1, -1, -1>>,
    <<10, 7, 6, 1, 7, 10, 1, 8, 7, 1, 0, 8, -1, -1, -1, -1>>,
    <<0, 3, 7, 0, 7, 10, 0, 10, 9, 6, 10, 7, -1, -1, -1, -1>>,
    <<7, 6, 10, 7, 10, 8, 8, 10, 9, -1, -1, -1, -1, -1, -1, -1>>,
    <<6, 8, 4, 11, 8, 6, -1, -1, -1, -1, -1, -1, -1, -1, -1, -1>>,
    <<3, 6, 11, 3, 0, 6, 0, 4, 6, -1, -1, -1, -1, -1, -1, -1>>,
    <<8, 6, 11, 8, 4, 6, 9, 0, 1, -1, -1, -1, -1, -1, -1, -1>>,
    <<9, 4, 6, 9, 6, 3, 9, 3, 1, 11, 3, 6, -1, -1, -1, -1>>,
    <<6, 8, 4, 6, 11, 8, 2, 10, 1, -1, -1, -1, -1, -1, -1, -1>>,
    <<1, 2, 10, 3, 0, 11, 0, 6, 11, 0, 4, 6, -1, -1, -1, -1>>,
    <<4, 11, 8, 4, 6, 11, 0, 2, 9, 2, 10, 9, -1, -1, -1, -1>>,
    <<10, 9, 3, 10, 3, 2, 9, 4, 3, 11, 3, 6, 4, 6, 3, -1>>,
    <<8, 2, 3, 8, 4, 2, 4, 6, 2, -1, -1, -1, -1, -1, -1, -1>>,
    <<0, 4, 2, 4, 6, 2, -1, -1, -1, -1, -1, -1, -1, -1, -1, -1>>,
    <<1, 9, 0, 2, 3, 4, 2, 4, 6, 4, 3, 8, -1, -1, -1, -1>>,
    <<1, 9, 4, 1, 4, 2, 2, 4, 6, -1, -1, -1, -1, -1, -1, -1>>,
    <<8, 1, 3, 8, 6, 1, 8, 4, 6, 6, 10, 1, -1, -1, -1, -1>>,
    <<10, 1, 0, 10, 0, 6, 6, 0, 4, -1, -1, -1, -1, -1, -1, -1>>,
    <<4, 6, 3, 4, 3, 8, 6, 10, 3, 0, 3, 9, 10, 9, 3, -1>>,
    <<10, 9, 4, 6, 10, 4, -1, -1, -1, -1, -1, -1, -1, -1, -1, -1>>,
    <<4, 9, 5, 7, 6, 11, -1, -1, -1, -1, -1, -1, -1, -1, -1, -1>>,
    <<0, 8, 3, 4, 9, 5, 11, 7, 6, -1, -1, -1, -1, -1, -1, -1>>,
    <<5, 0, 1, 5, 4, 0, 7, 6, 11, -1, -1, -1, -1, -1, -1, -1>>,
    <<11, 7, 6, 8, 3, 4, 3, 5, 4, 3, 1, 5, -1, -1, -1, -1>>,
    <<9, 5, 4, 10, 1, 2, 7, 6, 11, -1, -1, -1, -1, -1, -1, -1>>,
    <<6, 11, 7, 1, 2, 10, 0, 8, 3, 4, 9, 5, -1, -1, -1, -1>>,
    <<7, 6, 11, 5, 4, 10, 4, 2, 10, 4, 0, 2, -1, -1, -1, -1>>,
    <<3, 4, 8, 3, 5, 4, 3, 2, 5, 10, 5, 2, 11, 7, 6, -1>>,
    <<7, 2, 3, 7, 6, 2, 5, 4, 9, -1, -1, -1, -1, -1, -1, -1>>,
    <<9, 5, 4, 0, 8, 6, 0, 6, 2, 6, 8, 7, -1, -1, -1, -1>>,
    <<3, 6, 2, 3, 7, 6, 1, 5, 0, 5, 4, 0, -1, -1, -1, -1>>,
    <<6, 2, 8, 6, 8, 7, 2, 1, 8, 4, 8, 5, 1, 5, 8, -1>>,
    <<9, 5, 4, 10, 1, 6, 1, 7, 6, 1, 3, 7, -1, -1, -1, -1>>,
    <<1, 6, 10, 1, 7, 6, 1, 0, 7, 8, 7, 0, 9, 5, 4, -1>>,
    <<4, 0, 10, 4, 10, 5, 0, 3, 10, 6, 10, 7, 3, 7, 10, -1>>,
    <<7, 6, 10, 7, 10, 8, 5, 4, 10, 4, 8, 10, -1, -1, -1, -1>>,
    <<6, 9, 5, 6, 11, 9, 11, 8, 9, -1, -1, -1, -1, -1, -1, -1>>,
    <<3, 6, 11, 0, 6, 3, 0, 5, 6, 0, 9, 5, -1, -1, -1, -1>>,
    <<0, 11, 8, 0, 5, 11, 0, 1, 5, 5, 6, 11, -1, -1, -1, -1>>,
    <<6, 11, 3, 6, 3, 5, 5, 3, 1, -1, -1, -1, -1, -1, -1, -1>>,
    <<1, 2, 10, 9, 5, 11, 9, 11, 8, 11, 5, 6, -1, -1, -1, -1>>,
    <<0, 11, 3, 0, 6, 11, 0, 9, 6, 5, 6, 9, 1, 2, 10, -1>>,
    <<11, 8, 5, 11, 5, 6, 8, 0, 5, 10, 5, 2, 0, 2, 5, -1>>,
    <<6, 11, 3, 6, 3, 5, 2, 10, 3, 10, 5, 3, -1, -1, -1, -1>>,
    <<5, 8, 9, 5, 2, 8, 5, 6, 2, 3, 8, 2, -1, -1, -1, -1>>,
    <<9, 5, 6, 9, 6, 0, 0, 6, 2, -1, -1, -1, -1, -1, -1, -1>>,
    <<1, 5, 8, 1, 8, 0, 5, 6, 8, 3, 8, 2, 6, 2, 8, -1>>,
    <<1, 5, 6, 2, 1, 6, -1, -1, -1, -1, -1, -1, -1, -1, -1, -1>>,
    <<1, 3, 6, 1, 6, 10, 3, 8, 6, 5, 6, 9, 8, 9, 6, -1>>,
    <<10, 1, 0, 10, 0, 6, 9, 5, 0, 5, 6, 0, -1, -1, -1, -1>>,
    <<0, 3, 8, 5, 6, 10, -1, -1, -1, -1, -1, -1, -1, -1, -1, -1>>,
    <<10, 5, 6, -1, -1, -1, -1, -1, -1, -1, -1, -1, -1, -1, -1, -1>>,
    <<11, 5, 10, 7, 5, 11, -1, -1, -1, -1, -1, -1, -1, -1, -1, -1>>,
    <<11, 5, 10, 11, 7, 5, 8, 3, 0, -1, -1, -1, -1, -1, -1, -1>>,
    <<5, 11, 7, 5, 10, 11, 1, 9, 0, -1, -1, -1, -1, -1, -1, -1>>,
    <<10, 7, 5, 10, 11, 7, 9, 8, 1, 8, 3, 1, -1, -1, -1, -1>>,
    <<11, 1, 2, 11, 7, 1, 7, 5, 1, -1, -1, -1, -1, -1, -1, -1>>,
    <<0, 8, 3, 1, 2, 7, 1, 7, 5, 7, 2, 11, -1, -1, -1, -1>>,
    <<9, 7, 5, 9, 2, 7, 9, 0, 2, 2, 11, 7, -1, -1, -1, -1>>,
    <<7, 5, 2, 7, 2, 11, 5, 9, 2, 3, 2, 8, 9, 8, 2, -1>>,
    <<2, 5, 10, 2, 3, 5, 3, 7, 5, -1, -1, -1, -1, -1, -1, -1>>,
    <<8, 2, 0, 8, 5, 2, 8, 7, 5, 10, 2, 5, -1, -1, -1, -1>>,
    <<9, 0, 1, 5, 10, 3, 5, 3, 7, 3, 10, 2, -1, -1, -1, -1>>,
    <<9, 8, 2, 9, 2, 1, 8, 7, 2, 10, 2, 5, 7, 5, 2, -1>>,
    <<1, 3, 5, 3, 7, 5, -1, -1, -1, -1, -1, -1, -1, -1, -1, -1>>,
    <<0, 8, 7, 0, 7, 1, 1, 7, 5, -1, -1, -1, -1, -1, -1, -1>>,
    <<9, 0, 3, 9, 3, 5, 5, 3, 7, -1, -1, -1, -1, -1, -1, -1>>,
    <<9, 8, 7, 5, 9, 7, -1, -1, -1, -1, -1, -1, -1, -1, -1, -1>>,
    <<5, 8, 4, 5, 10, 8, 10, 11, 8, -1, -1, -1, -1, -1, -1, -1>>,
    <<5, 0, 4, 5, 11, 0, 5, 10, 11, 11, 3, 0, -1, -1, -1, -1>>,
    <<0, 1, 9, 8, 4, 10, 8, 10, 11, 10, 4, 5, -1, -1, -1, -1>>,
    <<10, 11, 4, 10, 4, 5, 11, 3, 4, 9, 4, 1, 3, 1, 4, -1>>,
    <<2, 5, 1, 2, 8, 5, 2, 11, 8, 4, 5, 8, -1, -1, -1, -1>>,
    <<0, 4, 11, 0, 11, 3, 4, 5, 11, 2, 11, 1, 5, 1, 11, -1>>,
    <<0, 2, 5, 0, 5, 9, 2, 11, 5, 4, 5, 8, 11, 8, 5, -1>>,
    <<9, 4, 5, 2, 11, 3, -1, -1, -1, -1, -1, -1, -1, -1, -1, -1>>,
    <<2, 5, 10, 3, 5, 2, 3, 4, 5, 3, 8, 4, -1, -1, -1, -1>>,
    <<5, 10, 2, 5, 2, 4, 4, 2, 0, -1, -1, -1, -1, -1, -1, -1>>,
    <<3, 10, 2, 3, 5, 10, 3, 8, 5, 4, 5, 8, 0, 1, 9, -1>>,
    <<5, 10, 2, 5, 2, 4, 1, 9, 2, 9, 4, 2, -1, -1, -1, -1>>,
    <<8, 4, 5, 8, 5, 3, 3, 5, 1, -1, -1, -1, -1, -1, -1, -1>>,
    <<0, 4, 5, 1, 0, 5, -1, -1, -1, -1, -1, -1, -1, -1, -1, -1>>,
    <<8, 4, 5, 8, 5, 3, 9, 0, 5, 0, 3, 5, -1, -1, -1, -1>>,
    <<9, 4, 5, -1, -1, -1, -1, -1, -1, -1, -1, -1, -1, -1, -1, -1>>,
    <<4, 11, 7, 4, 9, 11, 9, 10, 11, -1, -1, -1, -1, -1, -1, -1>>,
    <<0, 8, 3, 4, 9, 7, 9, 11, 7, 9, 10, 11, -1, -1, -1, -1>>,
    <<1, 10, 11, 1, 11, 4, 1, 4, 0, 7, 4, 11, -1, -1, -1, -1>>,
    <<3, 1, 4, 3, 4, 8, 1, 10, 4, 7, 4, 11, 10, 11, 4, -1>>,
    <<4, 11, 7, 9, 11, 4, 9, 2, 11, 9, 1, 2, -1, -1, -1, -1>>,
    <<9, 7, 4, 9, 11, 7, 9, 1, 11, 2, 11, 1, 0, 8, 3, -1>>,
    <<11, 7, 4, 11, 4, 2, 2, 4, 0, -1, -1, -1, -1, -1, -1, -1>>,
    <<11, 7, 4, 11, 4, 2, 8, 3, 4, 3, 2, 4, -1, -1, -1, -1>>,
    <<2, 9, 10, 2, 7, 9, 2, 3, 7, 7, 4, 9, -1, -1, -1, -1>>,
    <<9, 10, 7, 9, 7, 4, 10, 2, 7, 8, 7, 0, 2, 0, 7, -1>>,
    <<3, 7, 10, 3, 10, 2, 7, 4, 10, 1, 10, 0, 4, 0, 10, -1>>,
    <<1, 10, 2, 8, 7, 4, -1, -1, -1, -1, -1, -1, -1, -1, -1, -1>>,
    <<4, 9, 1, 4, 1, 7, 7, 1, 3, -1, -1, -1, -1, -1, -1, -1>>,
    <<4, 9, 1, 4, 1, 7, 0, 8, 1, 8, 7, 1, -1, -1, -1, -1>>,
    <<4, 0, 3, 7, 4, 3, -1, -1, -1, -1, -1, -1, -1, -1, -1, -1>>,
    <<4, 8, 7, -1, -1, -1, -1, -1, -1, -1, -1, -1, -1, -1, -1, -1>>,
    <<9, 10, 8, 10, 11, 8, -1, -1, -1, -1, -1, -1, -1, -1, -1, -1>>,
    <<3, 0, 9, 3, 9, 11, 11, 9, 10, -1, -1, -1, -1, -1, -1, -1>>,
    <<0, 1, 10, 0, 10, 8, 8, 10, 11, -1, -1, -1, -1, -1, -1, -1>>,
    <<3, 1, 10, 11, 3, 10, -1, -1, -1, -1, -1, -1, -1, -1, -1, -1>>,
    <<1, 2, 11, 1, 11, 9, 9, 11, 8, -1, -1, -1, -1, -1, -1, -1>>,
    <<3, 0, 9, 3, 9, 11, 1, 2, 9, 2, 11, 9, -1, -1, -1, -1>>,
    <<0, 2, 11, 8, 0, 11, -1, -1, -1, -1, -1, -1, -1, -1, -1, -1>>,
    <<3, 2, 11, -1, -1, -1, -1, -1, -1, -1, -1, -1, -1, -1, -1, -1>>,
    <<2, 3, 8, 2, 8, 10, 10, 8, 9, -1, -1, -1, -1, -1, -1, -1>>,
    <<9, 10, 2, 0, 9, 2, -1, -1, -1, -1, -1, -1, -1, -1, -1, -1>>,
    <<2, 3, 8, 2, 8, 10, 0, 1, 8, 1, 10, 8, -1, -1, -1, -1>>,
    <<1, 10, 2, -1, -1, -1, -1, -1, -1, -1, -1, -1, -1, -1, -1, -1>>,
    <<1, 3, 8, 9, 1, 8, -1, -1, -1, -1, -1, -1, -1, -1, -1, -1>>,
    <<0, 9, 1, -1, -1, -1, -1, -1, -1, -1, -1, -1, -1, -1, -1, -1>>,
    <<0, 3, 8, -1, -1, -1, -1, -1, -1, -1, -1, -1, -1, -1, -1, -1>>,
    <<-1, -1, -1, -1, -1, -1, -1, -1, -1, -1, -1, -1, -1, -1, -1, -1>>
    >>

\* EdgeTableAt with edges held in 8 bits
EdgeTableAtLowByte(cubeIndex) == edgeTable[cubeIndex + 1] % 256

EdgeTableAt(cubeIndex) == edgeTable[cubeIndex + 1]

TriTableAt(cubeIndex, i) == triTable[cubeIndex + 1][i + 1]

(***************************************************************************)
(* Mesher                                                                  *)
(*                                                                         *)
(* gridBuffer is a zero-initialised static, kept like the chunk arrays.    *)
(* The loops of mesh run over all 17^3 grid points and all 16^3 cells.     *)
(* The model takes the meshed chunk's fill pattern as the pattern of the   *)
(* grid, samples the grid points that can differ from it (those that read  *)
(* a stored voxel, or a chunk with another pattern, or no chunk), and      *)
(* marches the cells that touch a sample on the other side of ISOLEVEL     *)
(* than the pattern; every other cell has the cube index of eight pattern  *)
(* samples and is counted through UniformCellComponents.                   *)
(***************************************************************************)
SAMPLE_GRID_SIZE == CHUNK_SIZE + 1

\* position of gridBuffer.values[ly][lz][lx] in the row-major array
GridIndex(ly, lz, lx) == (ly * SAMPLE_GRID_SIZE + lz) * SAMPLE_GRID_SIZE + lx

GridX(gi) == gi % SAMPLE_GRID_SIZE

GridY(gi) == gi \div (SAMPLE_GRID_SIZE * SAMPLE_GRID_SIZE)

GridZ(gi) == (gi \div SAMPLE_GRID_SIZE) % SAMPLE_GRID_SIZE

\* what one iteration of the pre-sampling loop reads: <<value, r, g, b>>
GridSample(w, chunk, gi) ==
    getVoxelRelative(w, chunk, GridX(gi), GridY(gi), GridZ(gi))

\* voxel indices of a chunk whose density or color is stored
StoredVoxels(c) == DOMAIN c.value.at \cup {j \div 3 : j \in DOMAIN c.color.at}

\* the grid point of `chunk` that samples voxel k of chunk d, -1 if none does
GridPointOf(chunk, d, k) ==
    LET gx == (d.x - chunk.x) * CHUNK_SIZE + (k % CHUNK_SIZE)
        gy == (d.y - chunk.y) * CHUNK_SIZE + (k \div (CHUNK_SIZE * CHUNK_SIZE))
        gz == (d.z - chunk.z) * CHUNK_SIZE + ((k \div CHUNK_SIZE) % CHUNK_SIZE)
    IN IF gx \in 0 .. CHUNK_SIZE /\ gy \in 0 .. CHUNK_SIZE /\ gz \in 0 .. CHUNK_SIZE
       THEN GridIndex(gy, gz, gx) ELSE -1

\* the grid points that getVoxelRelative reads from the chunk displaced by
\* <<dx, dy, dz>>, each 0 or 1 and not all 0
RegionPoints(dx, dy, dz) ==
    LET along(d) == IF d = 1 THEN {CHUNK_SIZE} ELSE 0 .. CHUNK_SIZE - 1
    IN {GridIndex(p[2], p[3], p[1]) : p \in along(dx) \X along(dy) \X along(dz)}

\* the arrays getVoxel reads at chunk coordinate (cx, cy, cz): those of the
\* chunk, or zeros where there is none
ArraysAt(w, cx, cy, cz) ==
    IF chunkCoordinateInBounds(cx, cy, cz, w.bounds)
    THEN LET d == w.chunks[chunkCoordinateToIndex(cx, cy, cz, w.bounds)]
         IN [value |-> d.value, color |-> d.color]
    ELSE [value |-> ZeroArray, color |-> ZeroArray]

\* the grid points whose sample can differ from the chunk's fill pattern
GridCandidates(w, chunk) ==
    LET stored(d) == {GridPointOf(chunk, d, k) : k \in StoredVoxels(d)} \ {-1}
        region(o) ==
            LET a == ArraysAt(w, chunk.x + o[1], chunk.y + o[2], chunk.z + o[3])
            IN IF a.value.fill = chunk.value.fill /\ a.color.fill = chunk.color.fill
               THEN {} ELSE RegionPoints(o[1], o[2], o[3])
    IN UNION {stored(w.chunks[i]) : i \in DOMAIN w.chunks}
          \cup UNION {region(o) : o \in ({0, 1} \X {0, 1} \X {0, 1}) \ {<<0, 0, 0>>}}

\* the pre-sampling loop of mesh: gridBuffer after it
PreSample(w, chunk) ==
    LET cand == GridCandidates(w, chunk)
    IN [values |-> ArrayPattern(chunk.value.fill,
                      [gi \in cand |-> GridSample(w, chunk, gi)[1]]),
        colors |-> ArrayPattern(chunk.color.fill,
                      [ci \in {3 * g + k : g \in cand, k \in 0 .. 2} |->
                          GridSample(w, chunk, ci \div 3)[2 + (ci % 3)]])]

\* grid offsets <<dx, dy, dz>> of samples[0] .. samples[7] of a cell
CornerOffsets ==
    << <<0, 0, 0>>, <<0, 1, 0>>, <<1, 1, 0>>, <<1, 0, 0>>,
       <<0, 0, 1>>, <<0, 1, 1>>, <<1, 1, 1>>, <<1, 0, 1>> >>

\* samples[i].value of the cell at (lx, ly, lz)
SampleValue(grid, lx, ly, lz, i) ==
    LET o == CornerOffsets[i + 1]
    IN ArrayGet(grid.values, GridIndex(ly + o[2], lz + o[3], lx + o[1]))

\* the cube index with samples[7] setting bit 64 instead of bit 128
CubeIndexOfSevenBits(v) ==
      (IF v[1] >= ISOLEVEL THEN 1 ELSE 0)
    + (IF v[2] >= ISOLEVEL THEN 2 ELSE 0)
    + (IF v[3] >= ISOLEVEL THEN 4 ELSE 0)
    + (IF v[4] >= ISOLEVEL THEN 8 ELSE 0)
    + (IF v[5] >= ISOLEVEL THEN 16 ELSE 0)
    + (IF v[6] >= ISOLEVEL THEN 32 ELSE 0)
    + (IF v[7] >= ISOLEVEL \/ v[8] >= ISOLEVEL THEN 64 ELSE 0)

\* the cube index built from samples[0..7].value
CubeIndexOf(v) ==
      (IF v[1] >= ISOLEVEL THEN 1 ELSE 0)
    + (IF v[2] >= ISOLEVEL THEN 2 ELSE 0)
    + (IF v[3] >= ISOLEVEL THEN 4 ELSE 0)
    + (IF v[4] >= ISOLEVEL THEN 8 ELSE 0)
    + (IF v[5] >= ISOLEVEL THEN 16 ELSE 0)
    + (IF v[6] >= ISOLEVEL THEN 32 ELSE 0)
    + (IF v[7] >= ISOLEVEL THEN 64 ELSE 0)
    + (IF v[8] >= ISOLEVEL THEN 128 ELSE 0)

CubeIndex(grid, lx, ly, lz) ==
    CubeIndexOf([i \in 1 .. 8 |-> SampleValue(grid, lx, ly, lz, i - 1)])

\* triangles emitted by the loop "for (i = 0; i < 16; i += 3)" from entry i on
RECURSIVE TrianglesFrom(_, _)
TrianglesFrom(cubeIndex, i) ==
    IF i >= 16 THEN 0
    ELSE IF TriTableAt(cubeIndex, i) = -1 THEN 0
    ELSE 1 + TrianglesFrom(cubeIndex, i + 3)

\* components a cell with this cube index appends to each of positions,
\* normals and colors (3 vertices of 3 components per triangle)
ComponentsOf(cubeIndex) ==
    IF EdgeTableAt(cubeIndex) = 0 THEN 0
    ELSE 9 * TrianglesFrom(cubeIndex, 0)

CellComponents(grid, lx, ly, lz) == ComponentsOf(CubeIndex(grid, lx, ly, lz))

\* a cell all of whose samples hold the grid's fill byte
UniformCellComponents(grid) ==
    ComponentsOf(CubeIndexOf([i \in 1 .. 8 |-> grid.values.fill[1]]))

\* cells are numbered in iteration order: ly outermost, lz, lx innermost
CellNumber(lx, ly, lz) == lx + lz * CHUNK_SIZE + ly * CHUNK_SIZE * CHUNK_SIZE

\* the cells that have grid point gi as one of their eight corners
CellsTouching(gi) ==
    {CellNumber(GridX(gi) - o[1], GridY(gi) - o[2], GridZ(gi) - o[3]) :
        o \in {c \in {CornerOffsets[i] : i \in 1 .. 8} :
                  /\ GridX(gi) - c[1] \in 0 .. CHUNK_SIZE - 1
                  /\ GridY(gi) - c[2] \in 0 .. CHUNK_SIZE - 1
                  /\ GridZ(gi) - c[3] \in 0 .. CHUNK_SIZE - 1}}

\* the cells with a sample on the other side of ISOLEVEL than the fill byte
MixedCells(grid) ==
    UNION {CellsTouching(gi) :
              gi \in {g \in DOMAIN grid.values.at :
                         (grid.values.at[g] >= ISOLEVEL) # (grid.values.fill[1] >= ISOLEVEL)}}

\* the marching loop over the cells lo .. hi, S being the cells of lo .. hi
\* in MixedCells: the components appended
RECURSIVE MarchCells(_, _, _, _)
MarchCells(grid, S, lo, hi) ==
    IF S = {} THEN (hi - lo + 1) * UniformCellComponents(grid)
    ELSE IF lo = hi
    THEN CellComponents(grid, lo % CHUNK_SIZE, lo \div (CHUNK_SIZE * CHUNK_SIZE),
                        (lo \div CHUNK_SIZE) % CHUNK_SIZE)
    ELSE LET mid == (lo + hi) \div 2
         IN MarchCells(grid, {c \in S : c <= mid}, lo, mid)
            + MarchCells(grid, {c \in S : c > mid}, mid + 1, hi)

\* MeshCounts with one normal pushed per triangle instead of one per vertex
MeshCountsFlatNormals(grid) ==
    LET n == MarchCells(grid, MixedCells(grid), 0, CHUNK_VOXELS - 1)
    IN [positionsCount |-> 0 + n, normalsCount |-> 0 + (n \div 3), colorsCount |-> 0 + n]

\* the output counts of mesh, given gridBuffer after the pre-sampling loop
MeshCounts(grid) ==
    LET n == MarchCells(grid, MixedCells(grid), 0, CHUNK_VOXELS - 1)
    IN [positionsCount |-> 0 + n, normalsCount |-> 0 + n, colorsCount |-> 0 + n]

VERTICES_PER_VOXEL_WORST == 15

\* POS_COMPONENTS, NORMAL_COMPONENTS and COLOR_COMPONENTS
POS_COMPONENTS == 3

\* CHUNK_GEOMETRY_WORST_CASE_POSITIONS_COMPONENTS, and the equal
\* ..._NORMALS_COMPONENTS and ..._COLORS_COMPONENTS
CHUNK_GEOMETRY_WORST_CASE_COMPONENTS ==
    CHUNK_VOXELS * VERTICES_PER_VOXEL_WORST * POS_COMPONENTS

\* allocateChunkGeometry: a fresh output buffer, with its capacities and
\* zero counts; its arrays hold no triangle yet
allocateChunkGeometry ==
    [positionsCount |-> 0, normalsCount |-> 0, colorsCount |-> 0,
     positionsCapacity |-> CHUNK_GEOMETRY_WORST_CASE_COMPONENTS,
     normalsCapacity |-> CHUNK_GEOMETRY_WORST_CASE_COMPONENTS,
     colorsCapacity |-> CHUNK_GEOMETRY_WORST_CASE_COMPONENTS,
     triangles |-> << >>]

(***************************************************************************)
(* Mesh output                                                             *)
(*                                                                         *)
(* The floats of an edge point are exact rationals <<numerator,            *)
(* denominator>>: the interpolation step is a quotient of two byte         *)
(* differences and every position and color is linear in it.  An entry of  *)
(* srgbToLinearLUT is the float in millionths.  A triangle of the output   *)
(* stands for its 9 position, 9 normal and 9 color components; the normal  *)
(* components are computeNormal of the three positions, repeated per       *)
(* vertex.                                                                 *)
(***************************************************************************)
LutScale == 1000000

srgbToLinearLUT ==
    <<
    0, 304, 607, 911, 1214, 1518, 1821, 2125, 2428, 2732, 3035, 3347,
    3677, 4025, 4391, 4777, 5182, 5605, 6049, 6512, 6995, 7499, 8023, 8568,
    9134, 9721, 10330, 10960, 11612, 12286, 12983, 13702, 14444, 15209, 15996, 16807,
    17642, 18500, 19382, 20289, 21219, 22174, 23153, 24158, 25187, 26241, 27321, 28426,
    29557, 30713, 31896, 33105, 34340, 35601, 36889, 38204, 39546, 40915, 42311, 43735,
    45186, 46665, 48172, 49707, 51269, 52861, 54480, 56128, 57805, 59511, 61246, 63010,
    64803, 66626, 68478, 70360, 72272, 74214, 76185, 78187, 80220, 82283, 84376, 86500,
    88656, 90842, 93059, 95307, 97587, 99899, 102242, 104616, 107023, 109462, 111932, 114435,
    116971, 119538, 122139, 124772, 127438, 130136, 132868, 135633, 138432, 141263, 144128, 147027,
    149960, 152926, 155926, 158961, 162029, 165132, 168269, 171441, 174647, 177888, 181164, 184475,
    187821, 191202, 194618, 198069, 201556, 205079, 208637, 212231, 215861, 219526, 223228, 226966,
    230740, 234551, 238398, 242281, 246201, 250158, 254152, 258183, 262251, 266356, 270498, 274677,
    278894, 283149, 287441, 291771, 296138, 300544, 304987, 309469, 313989, 318547, 323143, 327778,
    332452, 337164, 341914, 346704, 351533, 356400, 361307, 366253, 371238, 376262, 381326, 386429,
    391573, 396755, 401978, 407240, 412543, 417885, 423268, 428690, 434154, 439657, 445201, 450786,
    456411, 462077, 467784, 473531, 479320, 485150, 491021, 496933, 502886, 508881, 514918, 520996,
    527115, 533276, 539479, 545725, 552011, 558340, 564712, 571125, 577580, 584078, 590619, 597202,
    603827, 610496, 617207, 623960, 630757, 637597, 644480, 651406, 658375, 665387, 672443, 679542,
    686685, 693872, 701102, 708376, 715693, 723055, 730461, 737910, 745404, 752942, 760525, 768151,
    775822, 783538, 791298, 799103, 806952, 814847, 822786, 830770, 838799, 846873, 854993, 863157,
    871367, 879622, 887923, 896269, 904661, 913099, 921582, 930111, 938686, 947306, 955973, 964686,
    973445, 982250, 991102, 1000000
    >>

\* a float holding an integer
Whole(n) == <<n, 1>>

\* samples[i] of the cell at (lx, ly, lz), built from the grid
SampleAt(grid, lx, ly, lz, i) ==
    LET o == CornerOffsets[i + 1]
        gi == GridIndex(ly + o[2], lz + o[3], lx + o[1])
    IN [position |-> <<lx + o[1], ly + o[2], lz + o[3]>>,
        value |-> ArrayGet(grid.values, gi),
        r |-> ArrayGet(grid.colors, 3 * gi + 0),
        g |-> ArrayGet(grid.colors, 3 * gi + 1),
        b |-> ArrayGet(grid.colors, 3 * gi + 2)]

\* the cell with number c in iteration order, as <<lx, ly, lz>>
CellCoords(c) ==
    <<c % CHUNK_SIZE, c \div (CHUNK_SIZE * CHUNK_SIZE), (c \div CHUNK_SIZE) % CHUNK_SIZE>>

\* samples[0 .. 7] after the sample-building code of cell c
CellSamples(grid, c) ==
    [i \in 0 .. 7 |-> SampleAt(grid, CellCoords(c)[1], CellCoords(c)[2], CellCoords(c)[3], i)]

\* RawStep measuring from b: (ISOLEVEL - b) / (b - a)
RawStepFromB(a, b) ==
    IF b.value > a.value THEN <<ISOLEVEL - b.value, b.value - a.value>>
    ELSE <<b.value - ISOLEVEL, a.value - b.value>>

\* (ISOLEVEL - a) / (b - a) for b # a, as <<numerator, denominator>> with a
\* positive denominator
RawStep(a, b) ==
    IF b.value > a.value THEN <<ISOLEVEL - a.value, b.value - a.value>>
    ELSE <<a.value - ISOLEVEL, a.value - b.value>>

\* the interpolation step of interpolate(out, a, b), clamped to [0, 1]
InterpolationStep(a, b) ==
    IF b.value = a.value THEN <<1, 2>>
    ELSE LET raw == RawStep(a, b)
         IN IF raw[1] < 0 THEN <<0, 1>> ELSE IF raw[1] > raw[2] THEN <<1, 1>> ELSE raw

\* from + step * (to - from)
Lerp(from, to, step) == <<from * step[2] + step[1] * (to - from), step[2]>>

\* interpolate(out, a, b): *out after the call
interpolate(a, b) ==
    LET step == InterpolationStep(a, b)
        lut(v) == srgbToLinearLUT[v + 1]
    IN [position |-> <<Lerp(a.position[1], b.position[1], step),
                       Lerp(a.position[2], b.position[2], step),
                       Lerp(a.position[3], b.position[3], step)>>,
        r |-> Lerp(lut(a.r), lut(b.r), step),
        g |-> Lerp(lut(a.g), lut(b.g), step),
        b |-> Lerp(lut(a.b), lut(b.b), step)]

\* EdgeEnds with edgePoints[3] interpolated across the face, from samples[3]
\* to samples[1]
EdgeEndsDiagonal ==
    << <<0, 1>>, <<1, 2>>, <<2, 3>>, <<3, 1>>, <<4, 5>>, <<5, 6>>,
       <<6, 7>>, <<7, 4>>, <<0, 4>>, <<1, 5>>, <<2, 6>>, <<3, 7>> >>

\* the two samples interpolated for edgePoints[0 .. 11]
EdgeEnds ==
    << <<0, 1>>, <<1, 2>>, <<2, 3>>, <<3, 0>>, <<4, 5>>, <<5, 6>>,
       <<6, 7>>, <<7, 4>>, <<0, 4>>, <<1, 5>>, <<2, 6>>, <<3, 7>> >>

\* edges & (1 << e)
EdgeBit(edges, e) == (edges \div (2 ^ e)) % 2 = 1

\* the zero-initialised statics samples[8] and edgePoints[12]
ZeroSamples ==
    [i \in 0 .. 7 |-> [position |-> <<0, 0, 0>>, value |-> 0, r |-> 0, g |-> 0, b |-> 0]]

ZeroEdgePoints ==
    [e \in 0 .. 11 |-> [position |-> <<Whole(0), Whole(0), Whole(0)>>,
                        r |-> Whole(0), g |-> Whole(0), b |-> Whole(0)]]

\* the cells the marching loop does not skip at "edges == 0": the cells
\* with samples on both sides of ISOLEVEL, or every cell if a cell of
\* eight equal samples is not skipped
MarchedCells(grid) ==
    IF UniformCellComponents(grid) = 0 THEN MixedCells(grid)
    ELSE 0 .. CHUNK_VOXELS - 1

\* the cube index of each marched cell
CubeIndices(grid) ==
    [c \in MarchedCells(grid) |->
        CubeIndex(grid, CellCoords(c)[1], CellCoords(c)[2], CellCoords(c)[3])]

\* the edge points the "build edge points" code of a cell writes, given
\* its samples and edges: edgePoints[e] for each bit e of edges
FreshEdgePoints(s, edges) ==
    [e \in {k \in 0 .. 11 : EdgeBit(edges, k)} |->
        interpolate(s[EdgeEnds[e + 1][1]], s[EdgeEnds[e + 1][2]])]

\* the last of the marched cells S within lo .. hi whose edges has bit e,
\* -1 if there is none
RECURSIVE LastWriter(_, _, _, _, _)
LastWriter(cubes, e, S, lo, hi) ==
    IF S = {} THEN -1
    ELSE IF lo = hi THEN (IF EdgeBit(EdgeTableAt(cubes[lo]), e) THEN lo ELSE -1)
    ELSE LET mid == (lo + hi) \div 2
             upper == LastWriter(cubes, e, {c \in S : c > mid}, mid + 1, hi)
         IN IF upper # -1 THEN upper
            ELSE LastWriter(cubes, e, {c \in S : c <= mid}, lo, mid)

\* edgePoints[e] when the loop reaches cell c (c = CHUNK_VOXELS: after the
\* loop): written by the last earlier cell whose edges has bit e, else what
\* the static held at entry
EdgePointBefore(grid, cubes, ep, e, c) ==
    LET last == LastWriter(cubes, e, {k \in DOMAIN cubes : k < c}, 0, CHUNK_VOXELS - 1)
    IN IF last = -1 THEN ep[e]
       ELSE FreshEdgePoints(CellSamples(grid, last), EdgeTableAt(cubes[last]))[e]

\* triTable[cubeIndex][i] as the compiler addresses it: i may run past the
\* row into the next one, and past the last row out of the table
TriTableFlat(cubeIndex, i) ==
    LET k == cubeIndex * 16 + i
    IN IF k < 256 * 16 THEN triTable[(k \div 16) + 1][(k % 16) + 1] ELSE -2

\* EdgePointIn with the triangle loop reading edgePoints before the cell
\* has built its edge points
EdgePointInBeforeBuild(grid, cubes, ep, fresh, e, c) ==
    IF e \notin 0 .. 11 THEN [outOfBounds |-> e]
    ELSE EdgePointBefore(grid, cubes, ep, e, c)

\* edgePoints[e] as the triangle loop of cell c reads it, fresh being what
\* the cell wrote; an index outside 0 .. 11 reads outside the array
EdgePointIn(grid, cubes, ep, fresh, e, c) ==
    IF e \notin 0 .. 11 THEN [outOfBounds |-> e]
    ELSE IF e \in DOMAIN fresh THEN fresh[e]
    ELSE EdgePointBefore(grid, cubes, ep, e, c)

\* the triangles cell c appends from entry i of its triTable row on
RECURSIVE CellTrianglesFrom(_, _, _, _, _, _)
CellTrianglesFrom(grid, cubes, ep, fresh, c, i) ==
    IF i >= 16 THEN << >>
    ELSE IF TriTableAt(cubes[c], i) = -1 THEN << >>
    ELSE << [cell |-> c,
             p0 |-> EdgePointIn(grid, cubes, ep, fresh, TriTableFlat(cubes[c], i), c),
             p1 |-> EdgePointIn(grid, cubes, ep, fresh, TriTableFlat(cubes[c], i + 1), c),
             p2 |-> EdgePointIn(grid, cubes, ep, fresh, TriTableFlat(cubes[c], i + 2), c)] >>
         \o CellTrianglesFrom(grid, cubes, ep, fresh, c, i + 3)

\* the triangles cell c appends
CellTriangles(grid, cubes, ep, c) ==
    IF EdgeTableAt(cubes[c]) = 0 THEN << >>
    ELSE CellTrianglesFrom(grid, cubes, ep,
             FreshEdgePoints(CellSamples(grid, c), EdgeTableAt(cubes[c])), c, 0)

\* the triangles the marching loop appends over the cells lo .. hi, S being
\* the marched cells among them
RECURSIVE MarchTriangles(_, _, _, _, _, _)
MarchTriangles(grid, cubes, ep, S, lo, hi) ==
    IF S = {} THEN << >>
    ELSE IF lo = hi
    THEN CellTriangles(grid, cubes, ep, lo)
    ELSE LET mid == (lo + hi) \div 2
         IN MarchTriangles(grid, cubes, ep, {c \in S : c <= mid}, lo, mid)
            \o MarchTriangles(grid, cubes, ep, {c \in S : c > mid}, mid + 1, hi)

\* the output buffer after mesh: the counts, and the triangles held by the
\* arrays, those of this call followed by what an earlier call left beyond
MeshGeometry(grid, cubes, out, ep) ==
    LET new == MarchTriangles(grid, cubes, ep, DOMAIN cubes, 0, CHUNK_VOXELS - 1)
        counts == MeshCounts(grid)
    IN [out EXCEPT !.positionsCount = counts.positionsCount,
                   !.normalsCount = counts.normalsCount,
                   !.colorsCount = counts.colorsCount,
                   !.triangles = new \o SubSeq(out.triangles, Len(new) + 1,
                                               Len(out.triangles))]

\* mesh(voxels, chunk, out): *out and the statics after the call, ep being
\* edgePoints at entry
mesh(w, chunk, out, ep) ==
    LET grid == PreSample(w, chunk)
        cubes == CubeIndices(grid)
    IN [gridBuffer |-> grid,
        samples |-> CellSamples(grid, CHUNK_VOXELS - 1),
        edgePoints |-> [e \in 0 .. 11 |-> EdgePointBefore(grid, cubes, ep, e, CHUNK_VOXELS)],
        geom |-> MeshGeometry(grid, cubes, out, ep)]

\* Output taking the whole buffer, whatever the counts say
OutputWholeBuffer(g) == g.triangles

\* the triangles a mesh call has output: the first positionsCount / 9
Output(g) == SubSeq(g.triangles, 1, g.positionsCount \div 9)


(***************************************************************************)
(* Raycaster                                                               *)
(*                                                                         *)
(* A float is the integer float * Scale; the rays cast have components     *)
(* for which every product and quotient of raycastVoxels is exact at this  *)
(* scale (direction components -1, 0 or 1).  x / 0.0f with x > 0 is        *)
(* Infinity, above FLT_MAX, above every finite value.                      *)
(***************************************************************************)
Scale == 10000

FLT_MAX == 2000000000

Infinity == 2100000000

\* 0.5f, 1.0f and the epsilon 0.0001f of the chunk skip
Half == Scale \div 2

One == Scale

Epsilon == Scale \div 10000

\* static_cast<int>(std::floor(f))
FloorToInt(f) == f \div Scale

\* f / dir for a direction component dir
FloatDiv(f, dir) ==
    IF dir = 0 THEN (IF f > 0 THEN Infinity ELSE -Infinity)
    ELSE IF f >= Infinity \/ f <= -Infinity THEN (IF (f > 0) = (dir > 0) THEN Infinity ELSE -Infinity)
    ELSE f \div dir

\* FloatAdd that moves tMax back by tDelta
FloatAddBackwards(a, b) ==
    IF a >= Infinity \/ b >= Infinity THEN Infinity
    ELSE IF a >= FLT_MAX \/ b >= FLT_MAX THEN FLT_MAX
    ELSE a - b

\* a + b where one of the two may be Infinity or FLT_MAX
FloatAdd(a, b) ==
    IF a >= Infinity \/ b >= Infinity THEN Infinity
    ELSE IF a >= FLT_MAX \/ b >= FLT_MAX THEN FLT_MAX
    ELSE a + b

Min3(a, b, c) == IF a <= b /\ a <= c THEN a ELSE IF b <= c THEN b ELSE c

\* the RaycastResult a caller constructs
NewRaycastResult ==
    [hit |-> FALSE, positionX |-> 0, positionY |-> 0, positionZ |-> 0,
     normalX |-> 0, normalY |-> 0, normalZ |-> 0,
     value |-> 0, r |-> 0, g |-> 0, b |-> 0, distance |-> 0,
     voxelX |-> 0, voxelY |-> 0, voxelZ |-> 0]

\* TMaxFrom measuring to the boundary the voxel starts at, not the next one
TMaxFromNearBoundary(v, tOrigin, dir) ==
    IF dir >= 0 THEN FloatDiv(v * Scale - tOrigin, dir)
    ELSE FloatDiv(tOrigin - (v + 1) * Scale, -dir)

\* tMax for one axis from voxel coordinate v: distance to the next boundary
TMaxFrom(v, tOrigin, dir) ==
    IF dir >= 0 THEN FloatDiv((v + 1) * Scale - tOrigin, dir)
    ELSE FloatDiv(tOrigin - v * Scale, -dir)

\* TExit measuring to the face the ray entered through
TExitNearFace(chunkMin, tOrigin, dir, distance) ==
    LET chunkMax == chunkMin + CHUNK_SIZE
        t == IF dir > 0 THEN FloatDiv(chunkMin * Scale - tOrigin, dir)
             ELSE FloatDiv(chunkMax * Scale - tOrigin, dir)
    IN IF dir # 0 /\ t > distance THEN t ELSE FLT_MAX

\* the exit distance of one axis in the chunk skip
TExit(chunkMin, tOrigin, dir, distance) ==
    LET chunkMax == chunkMin + CHUNK_SIZE
        t == IF dir > 0 THEN FloatDiv(chunkMax * Scale - tOrigin, dir)
             ELSE FloatDiv(chunkMin * Scale - tOrigin, dir)
    IN IF dir # 0 /\ t > distance THEN t ELSE FLT_MAX

\* the state of the traversal at the loop head
RayStart(tOrigin, dir) ==
    [x |-> FloorToInt(tOrigin[1]), y |-> FloorToInt(tOrigin[2]), z |-> FloorToInt(tOrigin[3]),
     tMaxX |-> TMaxFrom(FloorToInt(tOrigin[1]), tOrigin[1], dir[1]),
     tMaxY |-> TMaxFrom(FloorToInt(tOrigin[2]), tOrigin[2], dir[2]),
     tMaxZ |-> TMaxFrom(FloorToInt(tOrigin[3]), tOrigin[3], dir[3]),
     hitNormalX |-> 0, hitNormalY |-> 0, hitNormalZ |-> 0,
     distance |-> 0]

\* Advance that leaves the traversal where it is
AdvanceStalled(st, dir) == st

\* Advance with the normal along the step instead of against it
AdvanceNormalForward(st, dir) ==
    LET step(d) == IF d >= 0 THEN 1 ELSE -1
        tDelta(d) == IF d # 0 THEN (IF One \div d >= 0 THEN One \div d ELSE -(One \div d))
                     ELSE FLT_MAX
    IN IF st.tMaxX < st.tMaxY /\ st.tMaxX < st.tMaxZ
       THEN [st EXCEPT !.x = st.x + step(dir[1]),
                       !.distance = st.tMaxX,
                       !.tMaxX = FloatAdd(st.tMaxX, tDelta(dir[1])),
                       !.hitNormalX = step(dir[1]),
                       !.hitNormalY = 0, !.hitNormalZ = 0]
       ELSE IF st.tMaxY < st.tMaxZ
       THEN [st EXCEPT !.y = st.y + step(dir[2]),
                       !.distance = st.tMaxY,
                       !.tMaxY = FloatAdd(st.tMaxY, tDelta(dir[2])),
                       !.hitNormalX = 0,
                       !.hitNormalY = step(dir[2]), !.hitNormalZ = 0]
       ELSE [st EXCEPT !.z = st.z + step(dir[3]),
                       !.distance = st.tMaxZ,
                       !.tMaxZ = FloatAdd(st.tMaxZ, tDelta(dir[3])),
                       !.hitNormalX = 0, !.hitNormalY = 0,
                       !.hitNormalZ = step(dir[3])]

\* the step to the next voxel boundary: the axis with the smallest tMax
\* advances by one voxel, ties going to z, then y
Advance(st, dir) ==
    LET step(d) == IF d >= 0 THEN 1 ELSE -1
        tDelta(d) == IF d # 0 THEN (IF One \div d >= 0 THEN One \div d ELSE -(One \div d))
                     ELSE FLT_MAX
    IN IF st.tMaxX < st.tMaxY /\ st.tMaxX < st.tMaxZ
       THEN [st EXCEPT !.x = st.x + step(dir[1]),
                       !.distance = st.tMaxX,
                       !.tMaxX = FloatAdd(st.tMaxX, tDelta(dir[1])),
                       !.hitNormalX = -step(dir[1]),
                       !.hitNormalY = 0, !.hitNormalZ = 0]
       ELSE IF st.tMaxY < st.tMaxZ
       THEN [st EXCEPT !.y = st.y + step(dir[2]),
                       !.distance = st.tMaxY,
                       !.tMaxY = FloatAdd(st.tMaxY, tDelta(dir[2])),
                       !.hitNormalX = 0,
                       !.hitNormalY = -step(dir[2]), !.hitNormalZ = 0]
       ELSE [st EXCEPT !.z = st.z + step(dir[3]),
                       !.distance = st.tMaxZ,
                       !.tMaxZ = FloatAdd(st.tMaxZ, tDelta(dir[3])),
                       !.hitNormalX = 0, !.hitNormalY = 0,
                       !.hitNormalZ = -step(dir[3])]

\* the voxel test and the step to the next voxel boundary of one iteration
VoxelStep(out, w, tOrigin, dir, st) ==
    LET v == getVoxel(w, st.x, st.y, st.z)
    IN IF v[1] >= ISOLEVEL
       THEN [done |-> TRUE, st |-> st,
             out |-> [hit |-> TRUE,
                      positionX |-> tOrigin[1] + dir[1] * st.distance - Half,
                      positionY |-> tOrigin[2] + dir[2] * st.distance - Half,
                      positionZ |-> tOrigin[3] + dir[3] * st.distance - Half,
                      normalX |-> st.hitNormalX, normalY |-> st.hitNormalY,
                      normalZ |-> st.hitNormalZ,
                      value |-> v[1], r |-> v[2], g |-> v[3], b |-> v[4],
                      distance |-> st.distance,
                      voxelX |-> st.x, voxelY |-> st.y, voxelZ |-> st.z]]
       ELSE [done |-> FALSE, out |-> out, st |-> Advance(st, dir)]

\* one pass through "while (distance < maxDistance)" from state st: either
\* the function returns (done, with *out as it leaves it) or the loop
\* continues from the next state
RayIteration(out, w, tOrigin, dir, maxDistance, st) ==
    LET step(d) == IF d >= 0 THEN 1 ELSE -1
        c == worldPositionToChunkCoordinates(st.x, st.y, st.z)
        inBounds == chunkCoordinateInBounds(c[1], c[2], c[3], w.bounds)
        return(o) == [done |-> TRUE, out |-> o, st |-> st]
        continue(t) == [done |-> FALSE, out |-> out, st |-> t]
    IN IF ~(st.distance < maxDistance) THEN return([out EXCEPT !.hit = FALSE])
       ELSE IF ~inBounds
               \/ w.chunks[chunkCoordinateToIndex(c[1], c[2], c[3], w.bounds)].sum = 0
       THEN LET tExitX == TExit(c[1] * CHUNK_SIZE, tOrigin[1], dir[1], st.distance)
                tExitY == TExit(c[2] * CHUNK_SIZE, tOrigin[2], dir[2], st.distance)
                tExitZ == TExit(c[3] * CHUNK_SIZE, tOrigin[3], dir[3], st.distance)
                tExit == Min3(tExitX, tExitY, tExitZ)
                x == FloorToInt(tOrigin[1] + dir[1] * (tExit + Epsilon))
                y == FloorToInt(tOrigin[2] + dir[2] * (tExit + Epsilon))
                z == FloorToInt(tOrigin[3] + dir[3] * (tExit + Epsilon))
            IN IF tExit >= maxDistance \/ tExit = FLT_MAX
               THEN return([out EXCEPT !.hit = FALSE])
               ELSE continue(
                       [x |-> x, y |-> y, z |-> z,
                        tMaxX |-> IF dir[1] # 0 THEN TMaxFrom(x, tOrigin[1], dir[1]) ELSE st.tMaxX,
                        tMaxY |-> IF dir[2] # 0 THEN TMaxFrom(y, tOrigin[2], dir[2]) ELSE st.tMaxY,
                        tMaxZ |-> IF dir[3] # 0 THEN TMaxFrom(z, tOrigin[3], dir[3]) ELSE st.tMaxZ,
                        hitNormalX |-> IF tExit = tExitX THEN -step(dir[1]) ELSE 0,
                        hitNormalY |-> IF tExit # tExitX /\ tExit = tExitY THEN -step(dir[2]) ELSE 0,
                        hitNormalZ |-> IF tExit # tExitX /\ tExit # tExitY THEN -step(dir[3]) ELSE 0,
                        distance |-> tExit])
       ELSE VoxelStep(out, w, tOrigin, dir, st)

\* the while loop of raycastVoxels from state st on: out after the return
RECURSIVE RayLoop(_, _, _, _, _, _)
RayLoop(out, w, tOrigin, dir, maxDistance, st) ==
    LET it == RayIteration(out, w, tOrigin, dir, maxDistance, st)
    IN IF it.done THEN it.out
       ELSE RayLoop(out, w, tOrigin, dir, maxDistance, it.st)

\* raycastVoxels: *out after the call; origin and dir are triples
raycastVoxels(out, w, origin, dir, maxDistance) ==
    LET tOrigin == <<origin[1] + Half, origin[2] + Half, origin[3] + Half>>
    IN RayLoop(out, w, tOrigin, dir, maxDistance, RayStart(tOrigin, dir))

(***************************************************************************)
(* raycastVoxels with the rounding of float                                *)
(*                                                                         *)
(* Here a float of magnitude below 8 is the integer float * FineScale,     *)
(* written as the rational <<n, FineScale>> in arguments and results.  A   *)
(* float has a 24-bit significand: the floats of magnitude in              *)
(* [2^e, 2^(e+1)) are the multiples of 2^(e-23), and an operation returns  *)
(* the float nearest to its exact result, the one with the even            *)
(* significand at a tie.                                                   *)
(***************************************************************************)
FineScale == 2 ^ 27

Fine(n) == <<n, FineScale>>

\* the spacing of the floats around magnitude m (in units of 1 / FineScale)
Spacing(m) ==
    CHOOSE q \in {2 ^ k : k \in 0 .. 6} :
       /\ m \div q < 2 ^ 24
       /\ q = 1 \/ m \div q >= 2 ^ 23

\* the float nearest to n / FineScale, ties to the even significand
RoundToFloat(n) ==
    LET m == IF n < 0 THEN -n ELSE n
        q == Spacing(m)
        lo == (m \div q) * q
        up == IF 2 * (m - lo) > q \/ (2 * (m - lo) = q /\ (m \div q) % 2 = 1)
              THEN lo + q ELSE lo
    IN IF n < 0 THEN -up ELSE up

\* static_cast<int>(std::floor(f))
FineFloorToInt(f) == f \div FineScale

\* raycastVoxels for a call that returns in the first pass of the loop or
\* before it: maxDistance <= 0, or the voxel the traversal starts in has
\* density >= ISOLEVEL.  origin is a triple of floats, dir has components
\* -1, 0 or 1.
raycastVoxelsFirstPass(out, w, origin, dir, maxDistance) ==
    LET tOrigin == [i \in 1 .. 3 |-> RoundToFloat(origin[i] + FineScale \div 2)]
        x == FineFloorToInt(tOrigin[1])
        y == FineFloorToInt(tOrigin[2])
        z == FineFloorToInt(tOrigin[3])
        distance == 0
        v == getVoxel(w, x, y, z)
        hitPos(i) == RoundToFloat(tOrigin[i] + RoundToFloat(dir[i] * distance))
    IN IF ~(distance < maxDistance) THEN [out EXCEPT !.hit = FALSE]
       ELSE [hit |-> TRUE,
             positionX |-> Fine(RoundToFloat(hitPos(1) - FineScale \div 2)),
             positionY |-> Fine(RoundToFloat(hitPos(2) - FineScale \div 2)),
             positionZ |-> Fine(RoundToFloat(hitPos(3) - FineScale \div 2)),
             normalX |-> Fine(0), normalY |-> Fine(0), normalZ |-> Fine(0),
             value |-> v[1], r |-> v[2], g |-> v[3], b |-> v[4],
             distance |-> Fine(distance),
             voxelX |-> x, voxelY |-> y, voxelZ |-> z]

\* the first pass of the loop returns: the loop is not entered, or the
\* start voxel is in a chunk that is not skipped and is solid
ReturnsInFirstPass(w, origin, maxDistance) ==
    \/ maxDistance <= 0
    \/ LET t == [i \in 1 .. 3 |-> RoundToFloat(origin[i] + FineScale \div 2)]
           c == worldPositionToChunkCoordinates(FineFloorToInt(t[1]), FineFloorToInt(t[2]),
                                                FineFloorToInt(t[3]))
       IN /\ chunkCoordinateInBounds(c[1], c[2], c[3], w.bounds)
          /\ w.chunks[chunkCoordinateToIndex(c[1], c[2], c[3], w.bounds)].sum # 0
          /\ getVoxel(w, FineFloorToInt(t[1]), FineFloorToInt(t[2]), FineFloorToInt(t[3]))[1]
                >= ISOLEVEL

(***************************************************************************)
(* Inputs of the calls                                                     *)
(***************************************************************************)
\* the bounds initVoxels is called with: a 2x2x2 lattice around the origin
\* and a lattice with spans 1, 2, 3
BoundsChoices ==
    {<<-1, 0, -1, 0, -1, 0>>, <<-1, -1, 0, 1, -1, 1>>}

\* per-axis world coordinates: last voxel of chunk -1, first and an inner
\* voxel of chunk 0, first voxel of chunk 1
AxisCoords == {-1, 0, 7, 16}

WorldCoords == AxisCoords \X AxisCoords \X AxisCoords

\* <<density, r, g, b>> written by setVoxel
Paints == {<<255, 10, 20, 30>>, <<0, 0, 0, 7>>}

\* coordinates the reading calls are made with
ReadCoords ==
    {<<0, 0, 0>>, <<7, 7, 7>>, <<-1, -1, -1>>, <<-1, 0, 16>>, <<16, 16, 16>>,
     <<-17, 0, 0>>, <<0, 32, 0>>, <<-1, 16, 0>>}

ChunkCoords == (-2 .. 2) \X (-2 .. 2) \X (-2 .. 2)

Seeds == {0, 1, 2}

\* <<origin, direction, maxDistance>> of the rays cast; origin and
\* maxDistance are floats
Rays ==
    {<< <<7 * Scale, 7 * Scale, -10 * Scale>>, <<0, 0, 1>>, 100 * Scale >>,
     << <<-1 * Scale, 20 * Scale, -1 * Scale>>, <<0, -1, 0>>, 100 * Scale >>,
     << <<Scale \div 2, Scale \div 4, 0>>, <<-1, 0, 0>>, 5 * Scale >>,
     << <<0, 0, 0>>, <<0, 0, 0>>, 10 * Scale >>,
     << <<-3 * Scale, -3 * Scale, -3 * Scale>>, <<1, 1, 1>>, 20 * Scale >>}

(***************************************************************************)
(* State                                                                   *)
(***************************************************************************)
VARIABLES
    world,       \* the Voxels object: bounds and chunks
    geom,        \* the caller's ChunkGeometry: the three counts
    gridBuffer,  \* the static SampleGrid
    samples,     \* the static Sample samples[8]
    edgePoints,  \* the static EdgePoint edgePoints[12]
    rayOut,      \* the caller's RaycastResult
    cast,        \* the raycastVoxels call in progress: its arguments and locals
    meshers,     \* per thread: the mesh call in progress, its chunk and its
                 \* ChunkGeometry, and whether another call ran during it
    extracted,   \* history: per chunk whose mesh the caller has extracted, the
                 \* corner grid its last extraction was computed from
    hashGrid,    \* the boids' SpatialHashGrid object
    ret,         \* the last call: its name, arguments and result
    changed,     \* history: the chunks whose own or an adjacent chunk's voxel
                 \* data changed since their last mesh extraction
    calls        \* number of calls made

\* no raycastVoxels call is in progress
Idle == [pc |-> "idle"]

\* the threads that call mesh
Threads == {1, 2}

\* no mesh call is in progress; each thread has a freshly allocated geometry
NoMeshers ==
    [t \in Threads |-> [pc |-> "idle", chunk |-> Absent,
                        out |-> allocateChunkGeometry, overlapped |-> FALSE]]

vars == <<world, geom, gridBuffer, samples, edgePoints, rayOut, cast, meshers, extracted,
          hashGrid, ret, changed, calls>>

Call(op, args, val) == [op |-> op, args |-> args, val |-> val]

ChunkIndices == DOMAIN world.chunks

\* the chunks whose density or color array differs between two worlds
DataChanged(w1, w2) ==
    {i \in DOMAIN w1.chunks : \/ w1.chunks[i].value # w2.chunks[i].value
                              \/ w1.chunks[i].color # w2.chunks[i].color}

\* chunk j is chunk i or one of its up to 26 neighbours
Adjacent(w, i, j) ==
    /\ w.chunks[i].x - w.chunks[j].x \in -1 .. 1
    /\ w.chunks[i].y - w.chunks[j].y \in -1 .. 1
    /\ w.chunks[i].z - w.chunks[j].z \in -1 .. 1

\* the history after a call that took the world from w1 to w2
ChangedAfter(w1, w2) ==
    changed \cup {i \in DOMAIN w1.chunks : \E j \in DataChanged(w1, w2) : Adjacent(w1, i, j)}

\* no SpatialHashGrid has been constructed
NoHashGrid == << >>

Init ==
    /\ \E b \in BoundsChoices :
          /\ world = initVoxels(b[1], b[2], b[3], b[4], b[5], b[6])
          /\ ret = Call("initVoxels", b, <<>>)
    /\ geom = allocateChunkGeometry
    /\ gridBuffer = [values |-> ZeroArray, colors |-> ZeroArray]
    /\ samples = ZeroSamples
    /\ edgePoints = ZeroEdgePoints
    /\ rayOut = NewRaycastResult
    /\ cast = Idle
    /\ meshers = NoMeshers
    /\ extracted = << >>
    /\ hashGrid = NoHashGrid
    /\ changed = {}
    /\ calls = 0

(***************************************************************************)
(* Calls                                                                   *)
(***************************************************************************)
SetVoxel ==
    /\ calls < MaxCalls
    /\ \E pos \in WorldCoords, paint \in Paints :
          /\ world' = setVoxel(world, pos[1], pos[2], pos[3],
                               paint[1], paint[2], paint[3], paint[4])
          /\ ret' = Call("setVoxel", pos \o paint, <<>>)
    /\ calls' = calls + 1
    /\ changed' = ChangedAfter(world, world')
    /\ UNCHANGED <<geom, gridBuffer, samples, edgePoints, rayOut, cast, meshers,
                   extracted, hashGrid>>

GetVoxel ==
    /\ calls < MaxCalls
    /\ \E pos \in ReadCoords :
          ret' = Call("getVoxel", pos, getVoxel(world, pos[1], pos[2], pos[3]))
    /\ calls' = calls + 1
    /\ UNCHANGED <<world, geom, gridBuffer, samples, edgePoints, rayOut, cast, meshers,
                   extracted, hashGrid, changed>>

GetChunkAt ==
    /\ calls < MaxCalls
    /\ \E c \in ChunkCoords :
          ret' = Call("getChunkAt", c, getChunkAt(world, c[1], c[2], c[3]))
    /\ calls' = calls + 1
    /\ UNCHANGED <<world, geom, gridBuffer, samples, edgePoints, rayOut, cast, meshers,
                   extracted, hashGrid, changed>>

GetChunkAtPos ==
    /\ calls < MaxCalls
    /\ \E pos \in ReadCoords :
          ret' = Call("getChunkAtPos", pos, getChunkAtPos(world, pos[1], pos[2], pos[3]))
    /\ calls' = calls + 1
    /\ UNCHANGED <<world, geom, gridBuffer, samples, edgePoints, rayOut, cast, meshers,
                   extracted, hashGrid, changed>>

RecomputeChunkSum ==
    /\ calls < MaxCalls
    /\ \E i \in ChunkIndices :
          LET s == recomputeChunkSum(world.chunks[i])
          IN /\ world' = [world EXCEPT !.chunks[i].sum = s]
             /\ ret' = Call("recomputeChunkSum", <<i>>, s)
    /\ calls' = calls + 1
    /\ UNCHANGED <<geom, gridBuffer, samples, edgePoints, rayOut, cast, meshers,
                   extracted, hashGrid,
                   changed>>

\* the caller passes the chunk and its own coordinates, or a null chunk
GenerateChunk ==
    /\ calls < MaxCalls
    /\ \E i \in ChunkIndices \cup {Absent}, seed \in Seeds :
          /\ world' = IF i = Absent THEN world
                      ELSE [world EXCEPT !.chunks[i] =
                               generateChunk(world.chunks[i], world.chunks[i].x,
                                             world.chunks[i].y, world.chunks[i].z, seed)]
          /\ ret' = Call("generateChunk", <<i, seed>>, <<>>)
    /\ calls' = calls + 1
    /\ changed' = ChangedAfter(world, world')
    /\ UNCHANGED <<geom, gridBuffer, samples, edgePoints, rayOut, cast, meshers,
                   extracted, hashGrid>>

Mesh ==
    /\ calls < MaxCalls
    /\ \E i \in ChunkIndices :
          /\ \E m \in {mesh(world, world.chunks[i], geom, edgePoints)} :
                /\ gridBuffer' = m.gridBuffer
                /\ samples' = m.samples
                /\ edgePoints' = m.edgePoints
                /\ geom' = m.geom
          /\ changed' = changed \ {i}
          /\ ret' = Call("mesh", <<i>>, <<>>)
    /\ calls' = calls + 1
    /\ UNCHANGED <<world, rayOut, cast, meshers, extracted, hashGrid>>

RaycastVoxels ==
    /\ calls < MaxCalls
    /\ \E ray \in Rays :
          /\ rayOut' = raycastVoxels(rayOut, world, ray[1], ray[2], ray[3])
          /\ ret' = Call("raycastVoxels", ray, rayOut'.hit)
    /\ calls' = calls + 1
    /\ UNCHANGED <<world, geom, gridBuffer, samples, edgePoints, cast, meshers,
                   extracted, hashGrid, changed>>

IsChunkDirty ==
    /\ calls < MaxCalls
    /\ \E i \in ChunkIndices :
          ret' = Call("isChunkDirty", <<i>>, world.chunks[i].dirtyMesh)
    /\ calls' = calls + 1
    /\ UNCHANGED <<world, geom, gridBuffer, samples, edgePoints, rayOut, cast, meshers,
                   extracted, hashGrid, changed>>

SetChunkDirty ==
    /\ calls < MaxCalls
    /\ \E i \in ChunkIndices, dirty \in BOOLEAN :
          /\ world' = [world EXCEPT !.chunks[i].dirtyMesh = dirty]
          /\ ret' = Call("setChunkDirty", <<i, dirty>>, <<>>)
    /\ calls' = calls + 1
    /\ UNCHANGED <<geom, gridBuffer, samples, edgePoints, rayOut, cast, meshers,
                   extracted, hashGrid,
                   changed>>

ClearChunkDirty ==
    /\ calls < MaxCalls
    /\ \E i \in ChunkIndices :
          /\ world' = [world EXCEPT !.chunks[i].dirtyMesh = FALSE]
          /\ ret' = Call("clearChunkDirty", <<i>>, <<>>)
    /\ calls' = calls + 1
    /\ UNCHANGED <<geom, gridBuffer, samples, edgePoints, rayOut, cast, meshers,
                   extracted, hashGrid,
                   changed>>

Next ==
    \/ SetVoxel
    \/ GetVoxel
    \/ GetChunkAt
    \/ GetChunkAtPos
    \/ RecomputeChunkSum
    \/ GenerateChunk
    \/ Mesh
    \/ RaycastVoxels
    \/ IsChunkDirty
    \/ SetChunkDirty
    \/ ClearChunkDirty

Spec == Init /\ [][Next]_vars

\* the remesh step of a caller that clears a chunk's flag when it extracts
\* the chunk's mesh: mesh(world, chunk, geom) then clearChunkDirty(chunk)
ExtractMesh ==
    /\ calls < MaxCalls
    /\ \E i \in ChunkIndices :
          /\ \E m \in {mesh(world, world.chunks[i], geom, edgePoints)} :
                /\ gridBuffer' = m.gridBuffer
                /\ samples' = m.samples
                /\ edgePoints' = m.edgePoints
                /\ geom' = m.geom
                /\ extracted' = [j \in DOMAIN extracted \cup {i} |->
                                    IF j = i THEN m.gridBuffer ELSE extracted[j]]
          /\ world' = [world EXCEPT !.chunks[i].dirtyMesh = FALSE]
          /\ changed' = changed \ {i}
          /\ ret' = Call("mesh+clearChunkDirty", <<i>>, <<>>)
    /\ calls' = calls + 1
    /\ UNCHANGED <<rayOut, cast, meshers, hashGrid>>

NextScheduler ==
    \/ SetVoxel
    \/ GenerateChunk
    \/ ExtractMesh
    \/ IsChunkDirty

\* the calls of a caller that follows the remesh protocol
SpecScheduler == Init /\ [][NextScheduler]_vars

\* the same caller on a world that is only edited by setVoxel
NextProtocol ==
    \/ SetVoxel
    \/ ExtractMesh

SpecProtocol == Init /\ [][NextProtocol]_vars

\* worlds whose chunks have all been generated from one seed
TerrainBounds == {<<-1, 0, -1, 0, -1, 0>>, <<0, 0, 0, 0, 0, 0>>}

\* seeds whose noise is above the cut at its base: 2 gives density 255
\* everywhere, 3 gives 102 everywhere, 4 gives 255 with a hole at (7, 7, 7)
TerrainSeeds == {2, 3, 4}

\* generateChunk called on chunks i, i + 1, ... with their own coordinates
RECURSIVE GenerateFrom(_, _, _)
GenerateFrom(w, seed, i) ==
    IF i \notin DOMAIN w.chunks THEN w
    ELSE GenerateFrom([w EXCEPT !.chunks[i] =
                          generateChunk(w.chunks[i], w.chunks[i].x, w.chunks[i].y,
                                        w.chunks[i].z, seed)],
                      seed, i + 1)

\* the state after initVoxels and generateChunk on every chunk
InitTerrain ==
    /\ \E b \in TerrainBounds, seed \in TerrainSeeds :
          /\ world = GenerateFrom(initVoxels(b[1], b[2], b[3], b[4], b[5], b[6]), seed, 0)
          /\ ret = Call("generateChunk", <<Cardinality(DOMAIN world.chunks) - 1, seed>>, <<>>)
    /\ geom = allocateChunkGeometry
    /\ gridBuffer = [values |-> ZeroArray, colors |-> ZeroArray]
    /\ samples = ZeroSamples
    /\ edgePoints = ZeroEdgePoints
    /\ rayOut = NewRaycastResult
    /\ cast = Idle
    /\ meshers = NoMeshers
    /\ extracted = << >>
    /\ hashGrid = NoHashGrid
    /\ changed = DOMAIN world.chunks
    /\ calls = 0

NextTerrain ==
    \/ Mesh
    \/ GetVoxel
    \/ IsChunkDirty

SpecTerrain == InitTerrain /\ [][NextTerrain]_vars

\* repeated meshing of a generated world that no call changes
RemeshSeeds == {1, 4}

InitRemesh ==
    /\ \E b \in TerrainBounds, seed \in RemeshSeeds :
          /\ world = GenerateFrom(initVoxels(b[1], b[2], b[3], b[4], b[5], b[6]), seed, 0)
          /\ ret = Call("generateChunk", <<Cardinality(DOMAIN world.chunks) - 1, seed>>, <<>>)
    /\ geom = allocateChunkGeometry
    /\ gridBuffer = [values |-> ZeroArray, colors |-> ZeroArray]
    /\ samples = ZeroSamples
    /\ edgePoints = ZeroEdgePoints
    /\ rayOut = NewRaycastResult
    /\ cast = Idle
    /\ meshers = NoMeshers
    /\ extracted = << >>
    /\ hashGrid = NoHashGrid
    /\ changed = DOMAIN world.chunks
    /\ calls = 0

NextRemesh == Mesh

SpecRemesh == InitRemesh /\ [][NextRemesh]_vars

(***************************************************************************)
(* raycastVoxels, one loop iteration per step, over worlds built for it    *)
(***************************************************************************)
\* <<bounds, the setVoxel calls made after initVoxels>>
RayScenes ==
    {<< <<0, 0, 0, 0, 0, 0>>, << <<5, 5, 5, 255, 200, 100, 50>> >> >>,
     << <<0, 0, 0, 0, -2, 2>>,
        << <<5, 5, 37, 255, 1, 2, 3>>, <<5, 5, -27, 255, 4, 5, 6>> >> >>,
     << <<0, 0, 0, 0, -2, 2>>,
        << <<5, 5, 37, 255, 1, 2, 3>>, <<5, 5, 3, 100, 7, 8, 9>>,
           <<5, 5, 40, 127, 7, 8, 9>> >> >>,
     << <<-1, 0, -1, 0, -1, 0>>, << <<0, 0, 0, 128, 9, 9, 9>> >> >>,
     << <<-1, 0, -1, 0, -1, 0>>,
        << <<0, 0, 0, 255, 9, 9, 9>>, <<-1, -1, 0, 255, 8, 8, 8>> >> >>,
     << <<-1, 0, -1, 0, -1, 0>>,
        << <<0, 0, 0, 255, 9, 9, 9>>, <<-5, -5, -5, 100, 8, 8, 8>> >> >>}

\* the world after the setVoxel calls k, k + 1, ... of a scene
RECURSIVE SceneFrom(_, _, _)
SceneFrom(w, edits, k) ==
    IF k > Len(edits) THEN w
    ELSE SceneFrom(setVoxel(w, edits[k][1], edits[k][2], edits[k][3], edits[k][4],
                            edits[k][5], edits[k][6], edits[k][7]), edits, k + 1)

\* <<origin, direction, maxDistance>> of the rays cast in the scenes
SceneRays ==
    LET along(o, d) == {<<o, d, 100 * Scale>>, <<o, d, 10 * Scale>>}
        h == Scale \div 2
    IN along(<<5 * Scale, 5 * Scale, -10 * Scale>>, <<0, 0, 1>>)
       \cup along(<<5 * Scale, 5 * Scale, -40 * Scale>>, <<0, 0, 1>>)
       \cup along(<<5 * Scale, 5 * Scale, -20 * Scale>>, <<0, 0, 1>>)
       \cup along(<<5 * Scale, 5 * Scale, 0>>, <<0, 0, 1>>)
       \cup along(<<5 * Scale, 5 * Scale, 20 * Scale>>, <<0, 0, 1>>)
       \cup along(<<5 * Scale, 5 * Scale, 33 * Scale>>, <<0, 0, 1>>)
       \cup along(<<5 * Scale, 5 * Scale, 60 * Scale>>, <<0, 0, -1>>)
       \cup along(<<5 * Scale, 5 * Scale, 30 * Scale>>, <<0, 0, -1>>)
       \cup along(<<5 * Scale, 5 * Scale, 15 * Scale + h>>, <<0, 0, -1>>)
       \cup along(<<5 * Scale, 5 * Scale, 14 * Scale>>, <<0, 0, -1>>)
       \cup along(<<-3 * Scale, -3 * Scale, -3 * Scale>>, <<1, 1, 1>>)
       \cup along(<<3 * Scale, 3 * Scale, 3 * Scale>>, <<-1, -1, -1>>)
       \cup along(<<-3 * Scale, -3 * Scale, 0>>, <<1, 1, 0>>)
       \cup along(<<5 * Scale, 5 * Scale, 5 * Scale>>, <<0, 0, 0>>)
       \cup along(<<0, 0, 3 * Scale>>, <<0, 0, 0>>)
       \cup along(<<20 * Scale, 0, 0>>, <<-1, 0, 0>>)

InitRaycast ==
    /\ \E scene \in RayScenes :
          /\ world = SceneFrom(initVoxels(scene[1][1], scene[1][2], scene[1][3],
                                          scene[1][4], scene[1][5], scene[1][6]),
                               scene[2], 1)
          /\ ret = Call("setVoxel", scene[2][Len(scene[2])], <<>>)
    /\ geom = allocateChunkGeometry
    /\ gridBuffer = [values |-> ZeroArray, colors |-> ZeroArray]
    /\ samples = ZeroSamples
    /\ edgePoints = ZeroEdgePoints
    /\ rayOut = NewRaycastResult
    /\ cast = Idle
    /\ meshers = NoMeshers
    /\ extracted = << >>
    /\ hashGrid = NoHashGrid
    /\ changed = DOMAIN world.chunks
    /\ calls = 0

\* entry of raycastVoxels up to the loop head
RayBegin ==
    /\ calls < MaxCalls
    /\ cast = Idle
    /\ \E ray \in SceneRays :
          LET tOrigin == <<ray[1][1] + Half, ray[1][2] + Half, ray[1][3] + Half>>
          IN cast' = [pc |-> "loop", ray |-> ray, tOrigin |-> tOrigin,
                      st |-> RayStart(tOrigin, ray[2])]
    /\ UNCHANGED <<world, geom, gridBuffer, samples, edgePoints, rayOut, meshers,
                   extracted, hashGrid,
                   ret, changed, calls>>

\* one pass through the loop; the pass that returns completes the call
RayIterate ==
    /\ cast.pc = "loop"
    /\ \E it \in {RayIteration(rayOut, world, cast.tOrigin, cast.ray[2], cast.ray[3], cast.st)} :
          IF it.done
          THEN /\ rayOut' = it.out
               /\ ret' = Call("raycastVoxels", cast.ray, it.out.hit)
               /\ calls' = calls + 1
               /\ cast' = Idle
          ELSE /\ cast' = [cast EXCEPT !.st = it.st]
               /\ UNCHANGED <<rayOut, ret, calls>>
    /\ UNCHANGED <<world, geom, gridBuffer, samples, edgePoints, meshers,
                   extracted, hashGrid, changed>>

NextRaycast == RayBegin \/ RayIterate

SpecRaycast == InitRaycast /\ [][NextRaycast]_vars

\* the loop runs to its return once entered: the call is synchronous
SpecRaycastFair == SpecRaycast /\ WF_vars(RayIterate)

\* float coordinates near the voxels (0, 0, 0) and (5, 5, 5), in units of
\* 1 / FineScale: 0.1f and -0.1f, 2^-25 and 3 * 2^-25, 0.25, -0.5, and
\* 5, 5 + 2^-21, 5.5 - 2^-21
FineCoords ==
    {0, 13421773, -13421773, 4, 12, 2 ^ 25, -(2 ^ 26),
     5 * FineScale, 5 * FineScale + 64, 5 * FineScale + 2 ^ 26 - 64}

FineOrigins ==
    {<<a, b, b>> : a \in FineCoords, b \in {0, 13421773, 5 * FineScale}}

FineDirections == {<<0, 0, 1>>, <<-1, 0, 0>>, <<0, 0, 0>>}

FineDistances == {0, FineScale}

\* a raycastVoxels call from a float origin that returns in its first pass
RaycastFromInside ==
    /\ calls < MaxCalls
    /\ cast = Idle
    /\ \E origin \in FineOrigins, dir \in FineDirections, maxDistance \in FineDistances :
          /\ ReturnsInFirstPass(world, origin, maxDistance)
          /\ rayOut' = raycastVoxelsFirstPass(rayOut, world, origin, dir, maxDistance)
          /\ ret' = Call("raycastVoxels",
                         <<[i \in 1 .. 3 |-> Fine(origin[i])], dir, Fine(maxDistance)>>,
                         rayOut'.hit)
    /\ calls' = calls + 1
    /\ UNCHANGED <<world, geom, gridBuffer, samples, edgePoints, cast, meshers, extracted, hashGrid,
                   changed>>

NextRaycastOrigin == RayBegin \/ RayIterate \/ RaycastFromInside

SpecRaycastOrigin == InitRaycast /\ [][NextRaycastOrigin]_vars

(***************************************************************************)
(* mesh called from two threads                                            *)
(*                                                                         *)
(* gridBuffer, samples and edgePoints are statics shared by every call of  *)
(* mesh; each thread passes its own ChunkGeometry.  A call is two steps,   *)
(* the pre-sampling loop and the cell loop, and the steps of two calls may *)
(* interleave.  Unsynchronised access to the statics within a step is not  *)
(* modelled: the interleavings here are among those the build can produce. *)
(***************************************************************************)
\* worlds of two chunks with different contents: <<bounds, setVoxel calls>>
MeshScenes ==
    {<< <<0, 0, 0, 0, 0, 1>>,
        << <<5, 5, 5, 255, 200, 100, 50>>, <<5, 5, 21, 200, 10, 20, 30>>,
           <<6, 5, 21, 255, 10, 20, 30>> >> >>,
     << <<0, 0, 0, 0, 0, 1>>, << <<5, 5, 5, 255, 200, 100, 50>> >> >>,
     << <<0, 1, 0, 0, 0, 0>>,
        << <<3, 3, 3, 255, 1, 2, 3>>, <<20, 3, 3, 128, 4, 5, 6>>,
           <<21, 8, 3, 255, 7, 8, 9>> >> >>}

InitMeshers ==
    /\ \E scene \in MeshScenes :
          /\ world = SceneFrom(initVoxels(scene[1][1], scene[1][2], scene[1][3],
                                          scene[1][4], scene[1][5], scene[1][6]),
                               scene[2], 1)
          /\ ret = Call("setVoxel", scene[2][Len(scene[2])], <<>>)
    /\ geom = allocateChunkGeometry
    /\ gridBuffer = [values |-> ZeroArray, colors |-> ZeroArray]
    /\ samples = ZeroSamples
    /\ edgePoints = ZeroEdgePoints
    /\ rayOut = NewRaycastResult
    /\ cast = Idle
    /\ meshers = NoMeshers
    /\ extracted = << >>
    /\ hashGrid = NoHashGrid
    /\ changed = DOMAIN world.chunks
    /\ calls = 0

\* the calls in progress
InProgress == {u \in Threads : meshers[u].pc = "sampled"}

\* meshers after thread t moves to record m: a step of t falls within every
\* other call in progress
MeshersAfter(t, m) ==
    [u \in Threads |->
        IF u = t THEN m
        ELSE IF u \in InProgress THEN [meshers[u] EXCEPT !.overlapped = TRUE]
        ELSE meshers[u]]

\* thread t enters mesh for chunk i: the counts are reset and the
\* pre-sampling loop fills gridBuffer
MeshSample(t) ==
    /\ meshers[t].pc = "idle"
    /\ calls + Cardinality(InProgress) < MaxCalls
    /\ \E i \in ChunkIndices :
          /\ gridBuffer' = PreSample(world, world.chunks[i])
          /\ meshers' = MeshersAfter(t,
                            [pc |-> "sampled", chunk |-> i,
                             out |-> [meshers[t].out EXCEPT !.positionsCount = 0,
                                                            !.normalsCount = 0,
                                                            !.colorsCount = 0],
                             overlapped |-> FALSE])
    /\ UNCHANGED <<world, geom, samples, edgePoints, rayOut, cast,
                   extracted, hashGrid, ret, changed, calls>>

\* thread t runs the cell loop on gridBuffer as it is now and returns
MeshMarch(t) ==
    /\ meshers[t].pc = "sampled"
    /\ \E cubes \in {CubeIndices(gridBuffer)} :
          /\ samples' = CellSamples(gridBuffer, CHUNK_VOXELS - 1)
          /\ edgePoints' = [e \in 0 .. 11 |->
                               EdgePointBefore(gridBuffer, cubes, edgePoints, e, CHUNK_VOXELS)]
          /\ meshers' = MeshersAfter(t,
                            [meshers[t] EXCEPT
                                !.pc = "idle",
                                !.out = MeshGeometry(gridBuffer, cubes, meshers[t].out,
                                                     edgePoints)])
    /\ changed' = changed \ {meshers[t].chunk}
    /\ ret' = Call("mesh", <<meshers[t].chunk, t>>, <<>>)
    /\ calls' = calls + 1
    /\ UNCHANGED <<world, geom, gridBuffer, rayOut, cast, extracted, hashGrid>>

NextMeshers == \E t \in Threads : MeshSample(t) \/ MeshMarch(t)

SpecMeshers == InitMeshers /\ [][NextMeshers]_vars

(***************************************************************************)
(* The coordinate mapping on its own                                       *)
(***************************************************************************)
\* world positions: every x of six chunks around the origin, y and z at the
\* chunk borders
MappedPositions == (-48 .. 47) \X {-17, -1, 0, 16} \X {-1, 0}

InitCoords ==
    /\ world = initVoxels(0, 0, 0, 0, 0, 0)
    /\ ret = Call("initVoxels", <<0, 0, 0, 0, 0, 0>>, <<>>)
    /\ geom = allocateChunkGeometry
    /\ gridBuffer = [values |-> ZeroArray, colors |-> ZeroArray]
    /\ samples = ZeroSamples
    /\ edgePoints = ZeroEdgePoints
    /\ rayOut = NewRaycastResult
    /\ cast = Idle
    /\ meshers = NoMeshers
    /\ extracted = << >>
    /\ hashGrid = NoHashGrid
    /\ changed = DOMAIN world.chunks
    /\ calls = 0

\* worldPositionToChunkCoordinates and worldPositionToChunkPosition on one
\* world position: <<chunk coordinates, local offsets>>
WorldPositionToChunk ==
    /\ calls < MaxCalls
    /\ \E pos \in MappedPositions :
          ret' = Call("worldPositionToChunk", pos,
                      <<worldPositionToChunkCoordinates(pos[1], pos[2], pos[3]),
                        worldPositionToChunkPosition(pos[1], pos[2], pos[3])>>)
    /\ calls' = calls + 1
    /\ UNCHANGED <<world, geom, gridBuffer, samples, edgePoints, rayOut, cast, meshers,
                   extracted, hashGrid,
                   changed>>

NextCoords == WorldPositionToChunk

SpecCoords == InitCoords /\ [][NextCoords]_vars

(***************************************************************************)
(* Reads relative to a chunk                                               *)
(***************************************************************************)
\* edited worlds with voxels at chunk borders: <<bounds, setVoxel calls>>
RelativeScenes ==
    {<< <<-1, 0, -1, 0, -1, 0>>,
        << <<0, 0, 0, 255, 1, 2, 3>>, <<-1, -1, -1, 200, 4, 5, 6>>,
           <<15, 15, 15, 100, 7, 8, 9>>, <<-16, 0, 0, 50, 10, 11, 12>>,
           <<0, -1, 15, 77, 13, 14, 15>>, <<-1, 0, 0, 130, 16, 17, 18>> >> >>,
     << <<0, 0, 0, 0, 0, 1>>,
        << <<0, 0, 16, 255, 1, 2, 3>>, <<15, 15, 15, 90, 4, 5, 6>>,
           <<0, 0, 0, 60, 7, 8, 9>>, <<15, 0, 31, 40, 10, 11, 12>> >> >>}

\* local offsets: inside the chunk and one step outside on either side
RelativeOffsets == {-1, 0, 15, 16}

InitRelative ==
    /\ \E scene \in RelativeScenes :
          /\ world = SceneFrom(initVoxels(scene[1][1], scene[1][2], scene[1][3],
                                          scene[1][4], scene[1][5], scene[1][6]),
                               scene[2], 1)
          /\ ret = Call("setVoxel", scene[2][Len(scene[2])], <<>>)
    /\ geom = allocateChunkGeometry
    /\ gridBuffer = [values |-> ZeroArray, colors |-> ZeroArray]
    /\ samples = ZeroSamples
    /\ edgePoints = ZeroEdgePoints
    /\ rayOut = NewRaycastResult
    /\ cast = Idle
    /\ meshers = NoMeshers
    /\ extracted = << >>
    /\ hashGrid = NoHashGrid
    /\ changed = DOMAIN world.chunks
    /\ calls = 0

\* getVoxelRelative on chunk i of the world
GetVoxelRelative ==
    /\ calls < MaxCalls
    /\ \E i \in ChunkIndices, lx \in RelativeOffsets, ly \in RelativeOffsets,
          lz \in RelativeOffsets :
          ret' = Call("getVoxelRelative", <<i, lx, ly, lz>>,
                      getVoxelRelative(world, world.chunks[i], lx, ly, lz))
    /\ calls' = calls + 1
    /\ UNCHANGED <<world, geom, gridBuffer, samples, edgePoints, rayOut, cast, meshers,
                   extracted, hashGrid,
                   changed>>

NextRelative == GetVoxelRelative

SpecRelative == InitRelative /\ [][NextRelative]_vars

(***************************************************************************)
(* interpolate on its own                                                  *)
(***************************************************************************)
\* samples 0 and 1 of the cell at (3, 4, 5) with densities va and vb
EdgeSamples(va, vb) ==
    << [position |-> <<3, 4, 5>>, value |-> va, r |-> 200, g |-> 100, b |-> 50],
       [position |-> <<3, 5, 5>>, value |-> vb, r |-> 10, g |-> 20, b |-> 255] >>

\* the densities b paired with density a: a itself, and the nearest and the
\* farthest density on the other side of ISOLEVEL
PartnersOf(va) ==
    IF va < ISOLEVEL THEN {va, ISOLEVEL, 255} ELSE {va, ISOLEVEL - 1, 0}

Interpolate ==
    /\ calls < MaxCalls
    /\ \E va \in 0 .. 255 : \E vb \in PartnersOf(va) :
          ret' = Call("interpolate", EdgeSamples(va, vb),
                      interpolate(EdgeSamples(va, vb)[1], EdgeSamples(va, vb)[2]))
    /\ calls' = calls + 1
    /\ UNCHANGED <<world, geom, gridBuffer, samples, edgePoints, rayOut, cast, meshers,
                   extracted, hashGrid,
                   changed>>

NextInterpolate == Interpolate

SpecInterpolate == InitCoords /\ [][NextInterpolate]_vars

(***************************************************************************)
(* Boids: SpatialHashGrid                                                  *)
(*                                                                         *)
(* The object is the record of its fields; grid, gridNext and objectCell   *)
(* are functions on 0 .. gridSize - 1 and 0 .. maxObjects - 1.  A position *)
(* is a triple of floats with integer values.                              *)
(***************************************************************************)
\* number of SpatialHashGrid calls explored after construction
MaxGridCalls == 5

\* clear(): every cell empty, no object linked or placed
clear(g) ==
    [g EXCEPT !.grid = [i \in 0 .. g.gridSize - 1 |-> -1],
              !.gridNext = [i \in 0 .. g.maxObjects - 1 |-> -1],
              !.objectCell = [i \in 0 .. g.maxObjects - 1 |-> -1]]

\* the constructor
SpatialHashGrid(worldWidth, worldHeight, worldDepth, cellSize, maxObjects) ==
    LET gridWidth == (worldWidth + cellSize - 1) \div cellSize
        gridHeight == (worldHeight + cellSize - 1) \div cellSize
        gridDepth == (worldDepth + cellSize - 1) \div cellSize
    IN clear([grid |-> << >>, gridNext |-> << >>, objectCell |-> << >>,
              gridSize |-> gridWidth * gridHeight * gridDepth,
              cellSize |-> cellSize,
              gridWidth |-> gridWidth, gridHeight |-> gridHeight, gridDepth |-> gridDepth,
              maxObjects |-> maxObjects])

computeHashKey(g, x, y, z) == x + y * g.gridWidth + z * g.gridWidth * g.gridHeight

\* (int)(f / cellSize): the quotient truncated toward zero
CellOf(f, cellSize) == IF f >= 0 THEN f \div cellSize ELSE -((-f) \div cellSize)

\* the "Out of bounds" test of addObject and updateObject
CellOutOfBounds(g, c) ==
    \/ c[1] < 0 \/ c[1] >= g.gridWidth
    \/ c[2] < 0 \/ c[2] >= g.gridHeight
    \/ c[3] < 0 \/ c[3] >= g.gridDepth

addObject(g, objectId, position) ==
    IF objectId < 0 \/ objectId >= g.maxObjects THEN g
    ELSE LET c == [i \in 1 .. 3 |-> CellOf(position[i], g.cellSize)]
             key == computeHashKey(g, c[1], c[2], c[3])
         IN IF CellOutOfBounds(g, c) THEN g
            ELSE IF key < 0 \/ key >= g.gridSize THEN g
            ELSE [g EXCEPT !.grid[key] = objectId,
                           !.gridNext[objectId] = g.grid[key],
                           !.objectCell[objectId] = key]

\* the objects a traversal from `current` along gridNext visits before it
\* reaches -1; a traversal of more than maxObjects objects has entered a
\* cycle and is cut after maxObjects + 1
RECURSIVE Walk(_, _, _)
Walk(g, current, fuel) ==
    IF current = -1 \/ fuel = 0 THEN << >>
    ELSE <<current>> \o Walk(g, g.gridNext[current], fuel - 1)

\* the linked list of cell key
CellList(g, key) == Walk(g, g.grid[key], g.maxObjects + 1)

\* the loop of removeObject from the link *current on: the first link
\* holding objectId is set to gridNext[objectId]; slot is <<"grid", key>>
\* or <<"gridNext", id>>
RECURSIVE Unlink(_, _, _, _)
Unlink(g, slot, objectId, fuel) ==
    LET current == IF slot[1] = "grid" THEN g.grid[slot[2]] ELSE g.gridNext[slot[2]]
    IN IF current = -1 \/ fuel = 0 THEN g
       ELSE IF current = objectId
       THEN (IF slot[1] = "grid"
             THEN [g EXCEPT !.grid[slot[2]] = g.gridNext[objectId]]
             ELSE [g EXCEPT !.gridNext[slot[2]] = g.gridNext[objectId]])
       ELSE Unlink(g, <<"gridNext", current>>, objectId, fuel - 1)

\* removeObject that finds the object only at the head of the list
removeObjectHeadOnly(g, objectId) ==
    IF objectId < 0 \/ objectId >= g.maxObjects THEN g
    ELSE LET key == g.objectCell[objectId]
         IN IF key = -1 \/ key >= g.gridSize THEN g
            ELSE [Unlink(g, <<"grid", key>>, objectId, 1)
                     EXCEPT !.gridNext[objectId] = -1, !.objectCell[objectId] = -1]

removeObject(g, objectId) ==
    IF objectId < 0 \/ objectId >= g.maxObjects THEN g
    ELSE LET key == g.objectCell[objectId]
         IN IF key = -1 \/ key >= g.gridSize THEN g
            ELSE [Unlink(g, <<"grid", key>>, objectId, g.maxObjects + 1)
                     EXCEPT !.gridNext[objectId] = -1, !.objectCell[objectId] = -1]

\* the loop of removeObject ends: the list of the object's cell reaches
\* the object or its end
removeObjectReturns(g, objectId) ==
    IF objectId < 0 \/ objectId >= g.maxObjects THEN TRUE
    ELSE IF g.objectCell[objectId] = -1 \/ g.objectCell[objectId] >= g.gridSize THEN TRUE
    ELSE \E list \in {CellList(g, g.objectCell[objectId])} :
            Len(list) <= g.maxObjects \/ \E k \in 1 .. Len(list) : list[k] = objectId

updateObject(g, objectId, position) ==
    IF objectId < 0 \/ objectId >= g.maxObjects THEN g
    ELSE LET c == [i \in 1 .. 3 |-> CellOf(position[i], g.cellSize)]
             newKey == computeHashKey(g, c[1], c[2], c[3])
         IN IF CellOutOfBounds(g, c) THEN removeObject(g, objectId)
            ELSE IF newKey < 0 \/ newKey >= g.gridSize THEN removeObject(g, objectId)
            ELSE IF newKey = g.objectCell[objectId] THEN g
            ELSE addObject(removeObject(g, objectId), objectId, position)

\* the cells queryCube loops over, as keys
QueryKeys(g, origin, size) ==
    LET Max2(a, b) == IF a >= b THEN a ELSE b
        Min2(a, b) == IF a <= b THEN a ELSE b
        start(i) == Max2(0, CellOf(origin[i] - size, g.cellSize))
        endX == Min2(g.gridWidth - 1, CellOf(origin[1] + size, g.cellSize))
        endY == Min2(g.gridHeight - 1, CellOf(origin[2] + size, g.cellSize))
        endZ == Min2(g.gridDepth - 1, CellOf(origin[3] + size, g.cellSize))
    IN {computeHashKey(g, x, y, z) :
           x \in start(1) .. endX, y \in start(2) .. endY, z \in start(3) .. endZ}

\* queryCube: the sequence of callback arguments of the loops over the
\* cells, z outermost and x innermost, which is the order of increasing key
queryCube(g, origin, size) ==
    LET RECURSIVE VisitCells(_)
        VisitCells(keys) ==
            IF keys = {} THEN << >>
            ELSE LET key == CHOOSE k \in keys : \A j \in keys : k <= j
                 IN CellList(g, key) \o VisitCells(keys \ {key})
    IN VisitCells(QueryKeys(g, origin, size))

\* queryCube returns: every traversal reaches -1
queryCubeReturns(g, origin, size) ==
    \A key \in QueryKeys(g, origin, size) : Len(CellList(g, key)) <= g.maxObjects

\* <<worldWidth, worldHeight, worldDepth, cellSize, maxObjects>>
GridChoices == {<<4, 4, 2, 2, 3>>, <<3, 1, 1, 2, 2>>}

\* object ids, valid and invalid
GridObjectIds == -1 .. 3

GridPositions ==
    {<<-1, 0, 0>>, <<0, 0, 0>>, <<1, 1, 1>>, <<3, 0, 0>>, <<0, 2, 0>>, <<3, 3, 0>>,
     <<4, 0, 0>>, <<0, 0, 2>>}

\* <<origin, size>> of the queries
GridQueries == {<<<<0, 0, 0>>, 1>>, <<<<2, 2, 0>>, 1>>, <<<<1, 1, 1>>, 5>>, <<<<3, 0, 0>>, 0>>}

InitGrid ==
    /\ world = initVoxels(0, 0, 0, 0, 0, 0)
    /\ \E c \in GridChoices :
          /\ hashGrid = SpatialHashGrid(c[1], c[2], c[3], c[4], c[5])
          /\ ret = Call("SpatialHashGrid", c, <<>>)
    /\ geom = allocateChunkGeometry
    /\ gridBuffer = [values |-> ZeroArray, colors |-> ZeroArray]
    /\ samples = ZeroSamples
    /\ edgePoints = ZeroEdgePoints
    /\ rayOut = NewRaycastResult
    /\ cast = Idle
    /\ meshers = NoMeshers
    /\ extracted = << >>
    /\ changed = DOMAIN world.chunks
    /\ calls = 0

\* addObject, called for an object that is not in the grid
AddObject ==
    /\ calls < MaxGridCalls
    /\ \E objectId \in GridObjectIds, position \in GridPositions :
          /\ IF objectId \in DOMAIN hashGrid.objectCell
             THEN hashGrid.objectCell[objectId] = -1 ELSE TRUE
          /\ hashGrid' = addObject(hashGrid, objectId, position)
          /\ ret' = Call("addObject", <<objectId, position>>, <<>>)
    /\ calls' = calls + 1
    /\ UNCHANGED <<world, geom, gridBuffer, samples, edgePoints, rayOut, cast, meshers,
                   extracted, changed>>

RemoveObject ==
    /\ calls < MaxGridCalls
    /\ \E objectId \in GridObjectIds :
          /\ removeObjectReturns(hashGrid, objectId)
          /\ hashGrid' = removeObject(hashGrid, objectId)
          /\ ret' = Call("removeObject", <<objectId>>, <<>>)
    /\ calls' = calls + 1
    /\ UNCHANGED <<world, geom, gridBuffer, samples, edgePoints, rayOut, cast, meshers,
                   extracted, changed>>

UpdateObject ==
    /\ calls < MaxGridCalls
    /\ \E objectId \in GridObjectIds, position \in GridPositions :
          /\ removeObjectReturns(hashGrid, objectId)
          /\ hashGrid' = updateObject(hashGrid, objectId, position)
          /\ ret' = Call("updateObject", <<objectId, position>>, <<>>)
    /\ calls' = calls + 1
    /\ UNCHANGED <<world, geom, gridBuffer, samples, edgePoints, rayOut, cast, meshers,
                   extracted, changed>>

QueryCube ==
    /\ calls < MaxGridCalls
    /\ \E q \in GridQueries :
          /\ queryCubeReturns(hashGrid, q[1], q[2])
          /\ ret' = Call("queryCube", q, queryCube(hashGrid, q[1], q[2]))
    /\ calls' = calls + 1
    /\ UNCHANGED <<world, geom, gridBuffer, samples, edgePoints, rayOut, cast, meshers,
                   extracted, hashGrid, changed>>

NextGrid == AddObject \/ RemoveObject \/ UpdateObject \/ QueryCube

SpecGrid == InitGrid /\ [][NextGrid]_vars

(***************************************************************************)
(* Properties                                                              *)
(***************************************************************************)
\* the step just taken is a call of op
Called(op) == calls' = calls + 1 /\ ret'.op = op

\* the chunk owning world position (x, y, z) lies inside the world's bounds
PosInBounds(w, x, y, z) ==
    LET c == worldPositionToChunkCoordinates(x, y, z)
    IN chunkCoordinateInBounds(c[1], c[2], c[3], w.bounds)

\* the chunk owning world position (x, y, z), which is in bounds
ChunkOfPos(w, x, y, z) ==
    LET c == worldPositionToChunkCoordinates(x, y, z)
    IN w.chunks[chunkCoordinateToIndex(c[1], c[2], c[3], w.bounds)]

\* C1: right after setVoxel(x, y, z, d, r, g, b) at a position whose chunk is
\* in bounds, negative coordinates included, getVoxel(x, y, z) returns
\* exactly <<d, r, g, b>>.
C1_RoundTrip ==
    (ret.op = "setVoxel" /\ PosInBounds(world, ret.args[1], ret.args[2], ret.args[3]))
        => getVoxel(world, ret.args[1], ret.args[2], ret.args[3])
              = <<ret.args[4], ret.args[5], ret.args[6], ret.args[7]>>

\* a non-zero voxel written by the second call at a negative in-bounds
\* position reads back
C1_Witness ==
    /\ ret.op = "setVoxel"
    /\ calls = 2
    /\ ret.args[1] < 0 /\ ret.args[2] < 0
    /\ PosInBounds(world, ret.args[1], ret.args[2], ret.args[3])
    /\ getVoxel(world, ret.args[1], ret.args[2], ret.args[3]) = <<255, 10, 20, 30>>

\* C2: after initVoxels and any sequence of calls, every chunk's stored sum is
\* the sum of its densities, and a recomputeChunkSum call returns the stored
\* sum and changes nothing.
C2_SumInvariant ==
    /\ [](\A i \in ChunkIndices : world.chunks[i].sum = recomputeChunkSum(world.chunks[i]))
    /\ [][Called("recomputeChunkSum") =>
            /\ world' = world
            /\ ret'.val = world.chunks[ret'.args[1]].sum]_vars

\* recomputeChunkSum on a chunk that an earlier call filled
C2_Witness ==
    /\ ret.op = "recomputeChunkSum"
    /\ ret.val > 0
    /\ world.chunks[ret.args[1]].sum = ret.val

\* C3: setVoxel at a position whose chunk is out of bounds changes no
\* density, color, sum or dirty flag of any chunk.
C3_OutOfBoundsSetVoxel ==
    [][(Called("setVoxel") /\ ~PosInBounds(world, ret'.args[1], ret'.args[2], ret'.args[3]))
          => world' = world]_vars

\* an out-of-bounds setVoxel of a non-zero density at local offset 0 next to
\* an in-bounds chunk that is still clean
C3_Witness ==
    /\ ret.op = "setVoxel"
    /\ ret.args[4] = 255
    /\ ~PosInBounds(world, ret.args[1], ret.args[2], ret.args[3])
    /\ PosInBounds(world, ret.args[1] - 1, ret.args[2], ret.args[3])
    /\ ~ChunkOfPos(world, ret.args[1] - 1, ret.args[2], ret.args[3]).dirtyMesh
    /\ worldPositionToChunkPosition(ret.args[1], ret.args[2], ret.args[3])[1] = 0

\* C4: getVoxel at a position whose chunk is out of bounds returns density 0
\* and color (0, 0, 0) in every reachable state, and the call changes no state.
C4_OutOfBoundsGetVoxel ==
    /\ [](\A pos \in ReadCoords \cup WorldCoords :
            ~PosInBounds(world, pos[1], pos[2], pos[3])
                => getVoxel(world, pos[1], pos[2], pos[3]) = <<0, 0, 0, 0>>)
    /\ [][Called("getVoxel") =>
            /\ <<world, geom, gridBuffer>>' = <<world, geom, gridBuffer>>
            /\ (~PosInBounds(world, ret'.args[1], ret'.args[2], ret'.args[3])
                   => ret'.val = <<0, 0, 0, 0>>)]_vars

\* an out-of-bounds getVoxel on a world that has been edited
C4_Witness ==
    /\ ret.op = "getVoxel"
    /\ ~PosInBounds(world, ret.args[1], ret.args[2], ret.args[3])
    /\ ret.val = <<0, 0, 0, 0>>
    /\ \E i \in ChunkIndices : world.chunks[i].sum > 0

\* the displacements setVoxel propagates to for local offset l: every
\* non-zero vector whose component is -1 only where l is 0 and +1 only
\* where l is CHUNK_SIZE - 1
Displacements(l) ==
    LET along(a) == {0} \cup (IF l[a] = 0 THEN {-1} ELSE {})
                        \cup (IF l[a] = CHUNK_SIZE - 1 THEN {1} ELSE {})
    IN (along(1) \X along(2) \X along(3)) \ {<<0, 0, 0>>}

\* the chunks an in-bounds setVoxel at (x, y, z) must mark
ExpectedDirty(w, x, y, z) ==
    LET c == worldPositionToChunkCoordinates(x, y, z)
        l == worldPositionToChunkPosition(x, y, z)
    IN {i \in DOMAIN w.chunks :
          \E d \in Displacements(l) \cup {<<0, 0, 0>>} :
             <<w.chunks[i].x, w.chunks[i].y, w.chunks[i].z>>
                = <<c[1] + d[1], c[2] + d[2], c[3] + d[3]>>}

\* C5: an in-bounds setVoxel sets the dirty flag of exactly the owning chunk
\* and the in-bounds neighbours across the faces, edges and corner its local
\* offset lies on; every other chunk's flag keeps its value.
C5_DirtyPropagation ==
    [][(Called("setVoxel") /\ PosInBounds(world, ret'.args[1], ret'.args[2], ret'.args[3]))
          => \A i \in ChunkIndices :
                world'.chunks[i].dirtyMesh =
                   (world.chunks[i].dirtyMesh
                      \/ i \in ExpectedDirty(world, ret'.args[1], ret'.args[2], ret'.args[3]))]_vars

\* local offset (0, 0, 0) of chunk (0, 0, 0) in the 2x2x2 world: the chunk
\* and its 3 face, 3 edge and 1 corner neighbours are dirty
C5_Witness ==
    /\ ret.op = "setVoxel"
    /\ calls = 1
    /\ <<ret.args[1], ret.args[2], ret.args[3]>> = <<0, 0, 0>>
    /\ Cardinality(ChunkIndices) = 8
    /\ \A i \in ChunkIndices : world.chunks[i].dirtyMesh

\* C6: with a caller that clears a chunk's flag when it extracts the chunk's
\* mesh, a chunk's dirtyMesh is true if and only if voxel data of the chunk
\* or of an adjacent chunk has changed since the chunk's last extraction.
C6_DirtyIffChanged ==
    \A i \in ChunkIndices : world.chunks[i].dirtyMesh <=> i \in changed

\* generateChunk has changed a chunk's voxel data and the chunk is not dirty
C6_GeneratedNotDirty ==
    /\ ret.op = "generateChunk"
    /\ calls = 1
    /\ ret.args[1] # Absent
    /\ ret.args[1] \in changed
    /\ world.chunks[ret.args[1]].sum > 0
    /\ ~world.chunks[ret.args[1]].dirtyMesh

\* bounds the construction properties are evaluated for: every combination
\* of these <<min, max>> pairs on the three axes
AxisRanges == {<<-2, -2>>, <<-1, 0>>, <<0, 0>>, <<-1, 1>>, <<0, 2>>}

ProbeBounds == AxisRanges \X AxisRanges \X AxisRanges

WorldFor(b) == initVoxels(b[1][1], b[1][2], b[2][1], b[2][2], b[3][1], b[3][2])

\* the chunk coordinates inside bounds, stated on the coordinates alone
CoordsInside(bounds) ==
    (bounds.xmin .. bounds.xmax) \X (bounds.ymin .. bounds.ymax) \X (bounds.zmin .. bounds.zmax)

Label(chunk) == <<chunk.x, chunk.y, chunk.z>>

\* every byte of the array, stored or of the pattern, is 0
AllZero(arr) ==
    /\ \A k \in DOMAIN arr.fill : arr.fill[k] = 0
    /\ \A k \in DOMAIN arr.at : arr.at[k] = 0

\* a world as initVoxels leaves it: zeroed chunks labelled in index order
FreshWorld(w) ==
    /\ Cardinality(DOMAIN w.chunks) =
          (w.bounds.xmax - w.bounds.xmin + 1) * (w.bounds.ymax - w.bounds.ymin + 1)
             * (w.bounds.zmax - w.bounds.zmin + 1)
    /\ \A c \in CoordsInside(w.bounds) :
          Cardinality({i \in DOMAIN w.chunks : Label(w.chunks[i]) = c}) = 1
    /\ \A i \in DOMAIN w.chunks :
          /\ Label(w.chunks[i]) \in CoordsInside(w.bounds)
          /\ AllZero(w.chunks[i].value)
          /\ AllZero(w.chunks[i].color)
          /\ w.chunks[i].sum = 0
          /\ w.chunks[i].dirtyMesh = FALSE
    /\ \A pos \in ReadCoords \cup WorldCoords :
          getVoxel(w, pos[1], pos[2], pos[3]) = <<0, 0, 0, 0>>

\* C7: a chunk's dirty flag goes from true to false only in a
\* clearChunkDirty(chunk) or setChunkDirty(chunk, false) step, so no setVoxel,
\* getVoxel, mesh, raycastVoxels, generateChunk or recomputeChunkSum step
\* clears it; and a mesh step changes no chunk's flag or voxel data.
C7_DirtyClearedOnlyByCaller ==
    [][/\ \A i \in ChunkIndices :
             (world.chunks[i].dirtyMesh /\ ~world'.chunks[i].dirtyMesh)
                => \/ Called("clearChunkDirty") /\ ret'.args = <<i>>
                   \/ Called("setChunkDirty") /\ ret'.args = <<i, FALSE>>
       /\ (Called("mesh") \/ Called("raycastVoxels") \/ Called("getVoxel"))
             => world' = world]_vars

\* mesh has produced triangles for a dirty chunk, after the edit that made
\* it dirty, and the chunk is still dirty
C7_Witness ==
    /\ ret.op = "mesh"
    /\ calls = 2
    /\ geom.positionsCount > 0
    /\ world.chunks[ret.args[1]].dirtyMesh
    /\ world.chunks[ret.args[1]].sum > 0

\* C8: right after initVoxels with min <= max on every axis the world holds
\* one chunk per in-bounds chunk coordinate, their number is the product of
\* the spans, every chunk is all zero with sum 0 and a clear dirty flag, and
\* getVoxel returns zeros everywhere.
C8_InitVoxels ==
    calls = 0 =>
       /\ FreshWorld(world)
       /\ \A b \in ProbeBounds : FreshWorld(WorldFor(b))

\* the state after initVoxels(-1, -1, 0, 1, -1, 1): spans 1, 2, 3 and 6 chunks
C8_Witness ==
    /\ calls = 0
    /\ ret.op = "initVoxels"
    /\ ret.args = <<-1, -1, 0, 1, -1, 1>>
    /\ Cardinality(ChunkIndices) = 6
    /\ FreshWorld(world)

\* the chunk lattice of a world: getChunkAt finds a chunk exactly at the
\* coordinates inside the bounds, the chunk found carries the coordinate as
\* its label, different coordinates find different chunks, and the two index
\* conversions are inverse bijections between the coordinates inside the
\* bounds and 0 .. total - 1
LatticeOK(w) ==
    LET total == Cardinality(CoordsInside(w.bounds))
        index(c) == chunkCoordinateToIndex(c[1], c[2], c[3], w.bounds)
    IN /\ \A c \in ChunkCoords :
             LET found == getChunkAt(w, c[1], c[2], c[3])
             IN /\ found # Absent <=> c \in CoordsInside(w.bounds)
                /\ found # Absent =>
                      /\ found \in DOMAIN w.chunks
                      /\ Label(w.chunks[found]) = c
       /\ \A c1, c2 \in CoordsInside(w.bounds) :
             c1 # c2 => getChunkAt(w, c1[1], c1[2], c1[3]) # getChunkAt(w, c2[1], c2[2], c2[3])
       /\ \A c \in CoordsInside(w.bounds) :
             chunkIndexToCoordinate(index(c), w.bounds) = c
       /\ \A i \in 0 .. total - 1 :
             LET c == chunkIndexToCoordinate(i, w.bounds)
             IN c \in CoordsInside(w.bounds) /\ index(c) = i
       /\ {index(c) : c \in CoordsInside(w.bounds)} = 0 .. total - 1

\* C9: getChunkAt returns a chunk iff the coordinate is inside ChunkBounds,
\* the chunk's label is the coordinate asked for, distinct coordinates give
\* distinct chunks, and chunkIndexToCoordinate inverts chunkCoordinateToIndex
\* with the indices covering 0 .. total - 1.
C9_ChunkLattice ==
    /\ ret.op = "getChunkAt" =>
          /\ ret.val # Absent <=> <<ret.args[1], ret.args[2], ret.args[3]>> \in CoordsInside(world.bounds)
          /\ ret.val # Absent =>
                /\ ret.val \in ChunkIndices
                /\ Label(world.chunks[ret.val]) = <<ret.args[1], ret.args[2], ret.args[3]>>
    /\ calls = 0 =>
          /\ LatticeOK(world)
          /\ \A b \in ProbeBounds : LatticeOK(WorldFor(b))

\* getChunkAt has returned the chunk (-1, 1, 1) of the world with spans
\* 1, 2, 3 after an edit; its flat index is 5
C9_Witness ==
    /\ ret.op = "getChunkAt"
    /\ calls = 2
    /\ ret.args = <<-1, 1, 1>>
    /\ ret.val = 5
    /\ Label(world.chunks[ret.val]) = <<-1, 1, 1>>
    /\ \E i \in ChunkIndices : world.chunks[i].sum > 0

\* the grid points of a chunk's sample grid that lie outside the chunk
OuterGridPoints ==
    {p \in (0 .. CHUNK_SIZE) \X (0 .. CHUNK_SIZE) \X (0 .. CHUNK_SIZE) :
        p[1] = CHUNK_SIZE \/ p[2] = CHUNK_SIZE \/ p[3] = CHUNK_SIZE}

\* every voxel of the chunk has density d
UniformDensity(chunk, d) ==
    \A k \in 0 .. CHUNK_VOXELS - 1 : ArrayGet(chunk.value, k) = d

\* the chunk has uniform density and each of its cells has its eight corners
\* on one side of ISOLEVEL: the corners inside the chunk all have the
\* chunk's density, so this holds iff every corner sampled outside the
\* chunk lies on the same side as that density
UniformCubes(w, chunk) ==
    \E d \in {ArrayGet(chunk.value, 0)} :
       /\ UniformDensity(chunk, d)
       /\ \A p \in OuterGridPoints :
             (getVoxel(w, chunk.x * CHUNK_SIZE + p[1], chunk.y * CHUNK_SIZE + p[2],
                       chunk.z * CHUNK_SIZE + p[3])[1] >= ISOLEVEL) = (d >= ISOLEVEL)

\* C10: mesh on a chunk of uniform density whose cells all have cube index
\* 0 or 255 leaves positionsCount, normalsCount and colorsCount at 0.
C10_UniformMeshEmpty ==
    (ret.op = "mesh" /\ UniformCubes(world, world.chunks[ret.args[1]]))
        => /\ geom.positionsCount = 0
           /\ geom.normalsCount = 0
           /\ geom.colorsCount = 0

\* mesh of a chunk of density 255 whose neighbours on the +x, +y, +z side
\* are all present and of density 255: every cell has cube index 255
C10_Witness ==
    /\ ret.op = "mesh"
    /\ world.chunks[ret.args[1]].sum = CHUNK_VOXELS * 255
    /\ UniformCubes(world, world.chunks[ret.args[1]])
    /\ geom.positionsCount = 0

\* the three counts of an output buffer
Counts(g) == <<g.positionsCount, g.normalsCount, g.colorsCount>>

\* C11: a mesh call outputs the counts and triangles that a call on the same
\* world and chunk outputs from zeroed statics into a fresh buffer, whatever
\* the statics and the buffer hold at entry; so a mesh call that follows a
\* mesh call of the same chunk outputs what that call output.
C11_MeshDeterministic ==
    [][Called("mesh") =>
          \A ref \in {mesh(world, world.chunks[ret'.args[1]],
                           allocateChunkGeometry, ZeroEdgePoints).geom} :
             /\ Counts(geom') = Counts(ref)
             /\ Output(geom') = Output(ref)
             /\ (ret.op = "mesh" /\ ret.args = ret'.args)
                   => Counts(geom') = Counts(geom) /\ Output(geom') = Output(geom)]_vars

\* a second mesh call has output triangles into a buffer that holds more
\* triangles from the call before it, which meshed another chunk
C11_Witness ==
    /\ ret.op = "mesh"
    /\ calls = 2
    /\ geom.positionsCount > 0
    /\ Len(geom.triangles) > geom.positionsCount \div 9
    /\ edgePoints # ZeroEdgePoints

\* row cubeIndex of triTable is whole triples of edge indices followed by
\* -1 up to and including entry 15, so the triangle loop appends at most 5
\* triangles and reads no entry outside the row or the edgePoints array
RowWellFormed(cubeIndex) ==
    \E n \in 0 .. 5 :
       /\ \A i \in 0 .. 3 * n - 1 : TriTableAt(cubeIndex, i) \in 0 .. 11
       /\ \A i \in 3 * n .. 15 : TriTableAt(cubeIndex, i) = -1

\* no edge point of the triangle was read outside edgePoints
InsideEdgePoints(t) ==
    \A p \in {t.p0, t.p1, t.p2} : "outOfBounds" \notin DOMAIN p

\* C12: after a mesh call the three counts are equal, a multiple of 9 and
\* at most the capacity 16^3 * 15 * 3 that allocateChunkGeometry gave each
\* array, and the call has appended that many components from whole
\* triangles read inside edgePoints; every triTable row is whole triples
\* ended by -1 no later than entry 15, so a cell appends at most 5 triangles
\* (the tables are constant: they are examined in the initial states).
C12_MeshWithinCapacity ==
    /\ calls = 0 =>
          \A cubeIndex \in 0 .. 255 :
             /\ RowWellFormed(cubeIndex)
             /\ ComponentsOf(cubeIndex) <= VERTICES_PER_VOXEL_WORST * POS_COMPONENTS
             /\ ComponentsOf(cubeIndex) % 9 = 0
    /\ geom.positionsCapacity = CHUNK_SIZE * CHUNK_SIZE * CHUNK_SIZE * 15 * 3
    /\ ret.op = "mesh" =>
          /\ geom.positionsCount = geom.normalsCount
          /\ geom.normalsCount = geom.colorsCount
          /\ geom.positionsCount % 9 = 0
          /\ geom.positionsCount <= geom.positionsCapacity
          /\ geom.normalsCount <= geom.normalsCapacity
          /\ geom.colorsCount <= geom.colorsCapacity
          /\ 9 * Len(geom.triangles) >= geom.positionsCount
          /\ \A k \in 1 .. Len(Output(geom)) : InsideEdgePoints(Output(geom)[k])

\* mesh has appended several triangles into the buffer
C12_Witness ==
    /\ ret.op = "mesh"
    /\ geom.positionsCount >= 27
    /\ geom.positionsCount = geom.colorsCount
    /\ Len(Output(geom)) = geom.positionsCount \div 9

\* the world's only chunk is (0, 0, 0) and its only non-zero voxel is
\* (5, 5, 5), of density 255
SingleVoxelWorld(w) ==
    /\ DOMAIN w.chunks = {0}
    /\ Label(w.chunks[0]) = <<0, 0, 0>>
    /\ w.chunks[0].value.fill = <<0>>
    /\ DOMAIN w.chunks[0].value.at = {getVoxelIndex(5, 5, 5)}
    /\ ArrayGet(w.chunks[0].value, getVoxelIndex(5, 5, 5)) = 255

\* the call just completed is the ray from (5, 5, -10) along (0, 0, 1) with
\* maxDistance 100
RayAlongZ ==
    /\ ret.op = "raycastVoxels"
    /\ ret.args = << <<5 * Scale, 5 * Scale, -10 * Scale>>, <<0, 0, 1>>, 100 * Scale >>

\* C13: in the world whose only non-zero voxel is (5, 5, 5), the ray from
\* (5, 5, -10) along (0, 0, 1) with maxDistance 100 reports a hit on voxel
\* (5, 5, 5) with normal (0, 0, -1) and density 255.
C13_SingleVoxelHit ==
    (SingleVoxelWorld(world) /\ RayAlongZ) =>
        /\ rayOut.hit
        /\ <<rayOut.voxelX, rayOut.voxelY, rayOut.voxelZ>> = <<5, 5, 5>>
        /\ <<rayOut.normalX, rayOut.normalY, rayOut.normalZ>> = <<0, 0, -1>>
        /\ rayOut.value = 255

\* that ray has been cast in that world and has hit
C13_Witness ==
    /\ SingleVoxelWorld(world)
    /\ RayAlongZ
    /\ rayOut.hit
    /\ rayOut.voxelZ = 5

RECURSIVE NaiveUntil(_, _, _, _, _, _)
NaiveUntil(acc, w, tOrigin, dir, limit, span) ==
    IF acc.done \/ ~(acc.st.distance < limit) THEN acc
    ELSE IF span <= Scale
    THEN NaiveUntil(VoxelStep(acc.out, w, tOrigin, dir, acc.st),
                    w, tOrigin, dir, limit, span)
    ELSE LET half == (span + 1) \div 2
         IN NaiveUntil(NaiveUntil(acc, w, tOrigin, dir, limit - half, half),
                       w, tOrigin, dir, limit, half)

NaiveRaycast(w, origin, dir, maxDistance) ==
    LET tOrigin == <<origin[1] + Half, origin[2] + Half, origin[3] + Half>>
        end == NaiveUntil([done |-> FALSE, out |-> NewRaycastResult,
                           st |-> RayStart(tOrigin, dir)],
                          w, tOrigin, dir, maxDistance, maxDistance)
    IN IF end.done THEN end.out ELSE [end.out EXCEPT !.hit = FALSE]

\* the chunk at chunk coordinates c is absent or has sum 0
EmptyOrAbsent(w, c) ==
    \/ ~chunkCoordinateInBounds(c[1], c[2], c[3], w.bounds)
    \/ w.chunks[chunkCoordinateToIndex(c[1], c[2], c[3], w.bounds)].sum = 0

\* dir is a unit vector along one axis, in either direction
AxisDirection(dir) ==
    dir \in {<<1, 0, 0>>, <<-1, 0, 0>>, <<0, 1, 0>>, <<0, -1, 0>>, <<0, 0, 1>>, <<0, 0, -1>>}

Between(a, b) == IF a <= b THEN a..b ELSE b..a

\* the axis ray from origin reaches the solid voxel (hx, hy, hz) after
\* crossing only chunks that are absent or have sum 0 before the chunk of
\* that voxel
EmptyChunksThenSolid(w, origin, hx, hy, hz) ==
    LET sx == FloorToInt(origin[1] + Half)
        sy == FloorToInt(origin[2] + Half)
        sz == FloorToInt(origin[3] + Half)
        target == worldPositionToChunkCoordinates(hx, hy, hz)
    IN \A x \in Between(sx, hx), y \in Between(sy, hy), z \in Between(sz, hz) :
          LET c == worldPositionToChunkCoordinates(x, y, z)
          IN c # target => EmptyOrAbsent(w, c)

\* C15: for an axis ray that crosses N >= 0 chunks that are absent or have
\* sum 0 and then reaches a solid voxel, raycastVoxels reports the same hit
\* flag, voxel, normal, distance, density and colour as the traversal that
\* never skips chunks.
C15_SkipMatchesNaive ==
    (ret.op = "raycastVoxels" /\ AxisDirection(ret.args[2])) =>
        \A ref \in {NaiveRaycast(world, ret.args[1], ret.args[2], ret.args[3])} :
           (ref.hit /\ EmptyChunksThenSolid(world, ret.args[1],
                                            ref.voxelX, ref.voxelY, ref.voxelZ))
              => rayOut = ref

\* a ray along -z whose shifted origin lies on the lower face of an absent
\* or empty chunk: the reference traversal hits and raycastVoxels reports
\* no hit
C15_BoundaryStartMissed ==
    /\ ret.op = "raycastVoxels"
    /\ ret.args[2] = <<0, 0, -1>>
    /\ ~rayOut.hit
    /\ \E ref \in {NaiveRaycast(world, ret.args[1], ret.args[2], ret.args[3])} :
          /\ ref.hit
          /\ EmptyChunksThenSolid(world, ret.args[1], ref.voxelX, ref.voxelY, ref.voxelZ)

\* a reported hit is on a solid voxel, carries that voxel's data as getVoxel
\* returns it, and no voxel the per-voxel traversal enters at a smaller
\* distance is solid
C16_HitIsSound ==
    (ret.op = "raycastVoxels" /\ rayOut.hit) =>
        /\ rayOut.value >= ISOLEVEL
        /\ <<rayOut.value, rayOut.r, rayOut.g, rayOut.b>>
              = getVoxel(world, rayOut.voxelX, rayOut.voxelY, rayOut.voxelZ)
        /\ \A ref \in {NaiveRaycast(world, ret.args[1], ret.args[2], ret.args[3])} :
              ref.hit /\ ref.distance >= rayOut.distance

\* C16: a reported hit is on the first solid voxel of the ray (density
\* >= ISOLEVEL, data equal to getVoxel, nothing solid traversed closer to
\* the origin, weaker voxels passed through), and a ray that enters a solid
\* voxel at a distance below maxDistance reports a hit.
C16_FirstSolidHit ==
    ret.op = "raycastVoxels" =>
        /\ C16_HitIsSound
        /\ NaiveRaycast(world, ret.args[1], ret.args[2], ret.args[3]).hit => rayOut.hit

\* a ray with direction (1, 1, 1) leaves a non-empty chunk through a corner
\* into an empty chunk and reports no hit although it enters a solid voxel
C16_SolidMissed ==
    /\ ret.op = "raycastVoxels"
    /\ ~AxisDirection(ret.args[2])
    /\ ~rayOut.hit
    /\ NaiveRaycast(world, ret.args[1], ret.args[2], ret.args[3]).hit

\* a hit behind a voxel of density 1..127 that the ray passed through
C16_WeakPassedThrough ==
    /\ ret.op = "raycastVoxels"
    /\ rayOut.hit
    /\ \E z \in Between(FloorToInt(ret.args[1][3] + Half), rayOut.voxelZ) :
          getVoxel(world, rayOut.voxelX, rayOut.voxelY, z)[1] \in 1..(ISOLEVEL - 1)

C18_RaycastTerminates ==
    (cast.pc = "loop") ~> (cast.pc = "idle" /\ ret.op = "raycastVoxels")

\* a call with the zero direction has returned
C18_Witness ==
    /\ ret.op = "raycastVoxels"
    /\ ret.args[2] = <<0, 0, 0>>
    /\ cast.pc = "idle"

\* the two arrays hold the same bytes
SameBytes(a, b) ==
    /\ \A k \in 0 .. 2 : FillAt(a, k) = FillAt(b, k)
    /\ \A i \in DOMAIN a.at \cup DOMAIN b.at : ArrayGet(a, i) = ArrayGet(b, i)

\* the density the noise alone gives a voxel of solidity s (in thousandths):
\* 0 up to the cut at 0.01, the truncation of 255 * s above it
DensityFromNoise(s) == IF s > 10 THEN (s * 255) \div 1000 ELSE 0

\* the voxels of chunk (cx, cy, cz) where the noise of the seed is special,
\* and one voxel where it is at its base
NoiseProbes(cx, cy, cz, seed) ==
    LET special == SpecialVoxels(cx, cy, cz, seed)
    IN special \cup {CHOOSE i \in 0 .. CHUNK_VOXELS - 1 : i \notin special}

\* chunk c holds, at the probed voxels, the density the noise of the seed gives
DensitiesFromNoise(c, seed) ==
    \A idx \in NoiseProbes(c.x, c.y, c.z, seed) :
       ArrayGet(c.value, idx)
          = DensityFromNoise(Solidity(c.x * CHUNK_SIZE + (idx % CHUNK_SIZE),
                                      c.y * CHUNK_SIZE + (idx \div (CHUNK_SIZE * CHUNK_SIZE)),
                                      c.z * CHUNK_SIZE + ((idx \div CHUNK_SIZE) % CHUNK_SIZE),
                                      seed))

\* C19: after generateChunk every voxel of the chunk has the density the
\* noise at its world position gives (0 below the cut, floor(255 * solidity)
\* above it), whatever the chunk held before: the chunk's densities are
\* those of the same call on a zeroed chunk.
C19_GeneratedFromNoise ==
    (ret.op = "generateChunk" /\ ret.args[1] # Absent) =>
        LET c == world.chunks[ret.args[1]]
            fresh == generateChunk(NewChunk(ret.args[1], world.bounds),
                                   c.x, c.y, c.z, ret.args[2])
        IN /\ DensitiesFromNoise(c, ret.args[2])
           /\ SameBytes(c.value, fresh.value)

\* on a chunk that held only zeros the call leaves the densities of the noise
C19_FreshChunkFromNoise ==
    [][(Called("generateChunk") /\ ret'.args[1] # Absent
          /\ AllZero(world.chunks[ret'.args[1]].value))
         => DensitiesFromNoise(world'.chunks[ret'.args[1]], ret'.args[2])]_vars

\* a voxel set to 255 by setVoxel is still 255 after generateChunk although
\* the noise gives its position solidity 0
C19_PriorVoxelKept ==
    /\ ret.op = "generateChunk"
    /\ ret.args[1] # Absent
    /\ \E idx \in DOMAIN world.chunks[ret.args[1]].value.at :
          LET c == world.chunks[ret.args[1]]
          IN /\ ArrayGet(c.value, idx) = 255
             /\ Solidity(c.x * CHUNK_SIZE + (idx % CHUNK_SIZE),
                         c.y * CHUNK_SIZE + (idx \div (CHUNK_SIZE * CHUNK_SIZE)),
                         c.z * CHUNK_SIZE + ((idx \div CHUNK_SIZE) % CHUNK_SIZE),
                         ret.args[2]) = 0

\* what the mesh call of chunk i outputs when it runs alone
RunAlone(i) ==
    mesh(world, world.chunks[i], allocateChunkGeometry, ZeroEdgePoints).geom

\* C20: with gridBuffer, samples and edgePoints shared, a mesh call during
\* which no other mesh call took a step (calls in any serial order) outputs
\* what it outputs when run alone; calls whose steps interleave need not.
C20_SerialMeshRunsAlone ==
    [][\A t \in Threads :
          (meshers[t].pc = "sampled" /\ meshers'[t].pc = "idle"
              /\ ~meshers[t].overlapped)
             => \A ref \in {RunAlone(meshers[t].chunk)} :
                   /\ Counts(meshers'[t].out) = Counts(ref)
                   /\ Output(meshers'[t].out) = Output(ref)]_vars

\* two calls on chunks with different contents interleaved, and the call
\* that just returned output geometry other than its run-alone output
C20_Witness ==
    /\ ret.op = "mesh"
    /\ calls = 2
    /\ \E t \in Threads :
          /\ ret.args[2] = t
          /\ meshers[t].overlapped
          /\ meshers[t].pc = "idle"
          /\ Output(meshers[t].out) # Output(RunAlone(meshers[t].chunk))

\* C21: for every signed world coordinate w the chunk coordinate c = w >> 4
\* and the local offset l = w & 15 satisfy 0 <= l <= 15 and 16 * c + l = w,
\* so the pair determines w; -1 and 0 fall in different chunks.
C21_FloorMapping ==
    ret.op = "worldPositionToChunk" =>
        /\ \A k \in 1 .. 3 :
              /\ ret.val[2][k] \in 0 .. CHUNK_SIZE - 1
              /\ CHUNK_SIZE * ret.val[1][k] + ret.val[2][k] = ret.args[k]
        /\ \A k \in 1 .. 3 :
              worldPositionToChunkCoordinates(-1, -1, -1)[k]
                 # worldPositionToChunkCoordinates(0, 0, 0)[k]

\* the mapping has been applied to x = -1: chunk -1, local offset 15
C21_Witness ==
    /\ ret.op = "worldPositionToChunk"
    /\ ret.args[1] = -1
    /\ ret.val[1][1] = -1
    /\ ret.val[2][1] = CHUNK_SIZE - 1

\* C22: getVoxelRelative on a chunk of the world with offsets in -1..16
\* returns what getVoxel returns at world coordinate 16 * chunk + offset; an
\* offset that falls in an absent neighbour chunk yields density 0 and
\* colour (0, 0, 0).
C22_RelativeMatchesGetVoxel ==
    ret.op = "getVoxelRelative" =>
        LET chunk == world.chunks[ret.args[1]]
            wx == CHUNK_SIZE * chunk.x + ret.args[2]
            wy == CHUNK_SIZE * chunk.y + ret.args[3]
            wz == CHUNK_SIZE * chunk.z + ret.args[4]
        IN /\ ret.val = getVoxel(world, wx, wy, wz)
           /\ ~PosInBounds(world, wx, wy, wz) => ret.val = <<0, 0, 0, 0>>

\* an offset one step outside the chunk has read a set voxel of a neighbour
C22_Witness ==
    /\ ret.op = "getVoxelRelative"
    /\ \E k \in 2 .. 4 : ret.args[k] \in {-1, CHUNK_SIZE}
    /\ ret.val[1] > 0

\* densities va and vb lie on opposite sides of ISOLEVEL
Crossing(va, vb) == (va < ISOLEVEL /\ ISOLEVEL <= vb) \/ (vb < ISOLEVEL /\ ISOLEVEL <= va)

\* the rational q lies between the integers lo and hi (in either order)
BetweenWhole(q, lo, hi) ==
    /\ q[2] > 0
    /\ (IF lo <= hi THEN lo ELSE hi) * q[2] <= q[1]
    /\ q[1] <= (IF lo <= hi THEN hi ELSE lo) * q[2]

\* C23: for the density a just interpolated and every density b on the other
\* side of ISOLEVEL, the step is (128 - a) / (b - a), within [0, 1] before
\* clamping, and the edge point lies between the two corner positions; for
\* b = a the step is 0.5 and no quotient is formed.
C23_StepWithinSegment ==
    ret.op = "interpolate" =>
        \A vb \in 0 .. 255 :
           LET a == ret.args[1]
               b == [ret.args[2] EXCEPT !.value = vb]
               raw == RawStep(a, b)
               out == interpolate(a, b)
           IN /\ Crossing(a.value, vb) =>
                    /\ raw[2] > 0
                    /\ raw[1] * (vb - a.value) = (ISOLEVEL - a.value) * raw[2]
                    /\ 0 <= raw[1] /\ raw[1] <= raw[2]
                    /\ InterpolationStep(a, b) = raw
                    /\ \A k \in 1 .. 3 :
                          BetweenWhole(out.position[k], a.position[k], b.position[k])
              /\ vb = a.value =>
                    /\ InterpolationStep(a, b) = <<1, 2>>
                    /\ out.position[2] = <<2 * a.position[2] + 1, 2>>
              /\ vb = ret.args[2].value => ret.val = out

\* interpolate has run on densities 0 and 255: the step is 128 / 255
C23_Witness ==
    /\ ret.op = "interpolate"
    /\ ret.args[1].value = 0
    /\ ret.args[2].value = 255
    /\ ret.val.position[2] = <<4 * 255 + 128, 255>>

\* the chunks whose pre-sampling loop (offsets 0 .. 16 on each axis) reads
\* world voxel (wx, wy, wz)
ReadersOf(w, wx, wy, wz) ==
    LET c == worldPositionToChunkCoordinates(wx, wy, wz)
        l == worldPositionToChunkPosition(wx, wy, wz)
    IN {i \in DOMAIN w.chunks :
           /\ (c[1] - w.chunks[i].x) * CHUNK_SIZE + l[1] \in 0 .. CHUNK_SIZE
           /\ (c[2] - w.chunks[i].y) * CHUNK_SIZE + l[2] \in 0 .. CHUNK_SIZE
           /\ (c[3] - w.chunks[i].z) * CHUNK_SIZE + l[3] \in 0 .. CHUNK_SIZE}

\* the last extracted mesh of every chunk that is not dirty was computed from
\* the corner grid the chunk's pre-sampling gives now
CleanMeshesCurrent(w, ex) ==
    \A i \in DOMAIN ex :
       ~w.chunks[i].dirtyMesh => ex[i] = PreSample(w, w.chunks[i])

\* C24: a setVoxel sets the dirty flag of every chunk of the world whose
\* pre-sampling reads the edited voxel; so with a caller that clears a
\* chunk's flag when it extracts its mesh, the last extracted mesh of a chunk
\* that is not dirty was computed from the voxel data as it is now.
C24_ReadersDirtied ==
    [][/\ (Called("setVoxel")
             /\ PosInBounds(world, ret'.args[1], ret'.args[2], ret'.args[3])) =>
             \A i \in ReadersOf(world, ret'.args[1], ret'.args[2], ret'.args[3]) :
                world'.chunks[i].dirtyMesh
       /\ CleanMeshesCurrent(world', extracted')]_vars

\* a chunk was extracted, and then a voxel at local offset 0 of a neighbour,
\* which the chunk samples at offset 16, was set to 255: the chunk is dirty
\* and its extracted mesh is out of date
C24_Witness ==
    /\ ret.op = "setVoxel"
    /\ ret.args[4] = 255
    /\ PosInBounds(world, ret.args[1], ret.args[2], ret.args[3])
    /\ \E i \in DOMAIN extracted :
          /\ i \in ReadersOf(world, ret.args[1], ret.args[2], ret.args[3])
          /\ ChunkOfPos(world, ret.args[1], ret.args[2], ret.args[3]).id # i
          /\ world.chunks[i].dirtyMesh
          /\ extracted[i] # PreSample(world, world.chunks[i])

\* C25: every chunk's sum is within 0 .. 255 * 4096 and is 0 exactly when
\* every density of the chunk is 0; so a chunk with sum 0, which the
\* raycaster skips, holds no density >= ISOLEVEL.
C25_SumZeroIffEmpty ==
    \A i \in ChunkIndices :
       LET c == world.chunks[i]
       IN /\ c.sum >= 0
          /\ c.sum <= 255 * CHUNK_VOXELS
          /\ c.sum = 0 <=> AllZero(c.value)
          /\ c.sum = 0 =>
                /\ c.value.fill[1] < ISOLEVEL
                /\ \A k \in DOMAIN c.value.at : c.value.at[k] < ISOLEVEL

\* the second call wrote density 0 with a colour: the chunk written to holds
\* colour bytes, no density, and has sum 0
C25_Witness ==
    /\ ret.op = "setVoxel"
    /\ calls = 2
    /\ ret.args[4] = 0
    /\ PosInBounds(world, ret.args[1], ret.args[2], ret.args[3])
    /\ ChunkOfPos(world, ret.args[1], ret.args[2], ret.args[3]).sum = 0
    /\ ChunkOfPos(world, ret.args[1], ret.args[2], ret.args[3]).color.at # << >>

\* the arrays a and b hold the same bytes at every index outside S
SameOutside(a, b, S) ==
    /\ a.fill = b.fill
    /\ \A k \in (DOMAIN a.at \cup DOMAIN b.at) \ S : ArrayGet(a, k) = ArrayGet(b, k)

\* getVoxelIndex maps the local offsets one-to-one into 0 .. 4095: the offset
\* is recovered from the index
VoxelIndexOneToOne ==
    \A lx \in 0 .. CHUNK_SIZE - 1, ly \in 0 .. CHUNK_SIZE - 1, lz \in 0 .. CHUNK_SIZE - 1 :
       LET idx == getVoxelIndex(lx, ly, lz)
       IN /\ idx \in 0 .. CHUNK_VOXELS - 1
          /\ <<idx % CHUNK_SIZE, idx \div (CHUNK_SIZE * CHUNK_SIZE),
                (idx \div CHUNK_SIZE) % CHUNK_SIZE>> = <<lx, ly, lz>>

\* C26: an in-bounds setVoxel changes the density and colour of the addressed
\* voxel only: the other voxels of the owning chunk and every other chunk's
\* voxels and sum are as before, and getVoxelIndex gives no two local
\* offsets the same index.
C26_SetVoxelFrame ==
    [][(Called("setVoxel") /\ PosInBounds(world, ret'.args[1], ret'.args[2], ret'.args[3]))
          => LET owner == ChunkOfPos(world, ret'.args[1], ret'.args[2], ret'.args[3]).id
                 l == worldPositionToChunkPosition(ret'.args[1], ret'.args[2], ret'.args[3])
                 idx == getVoxelIndex(l[1], l[2], l[3])
             IN /\ \A i \in ChunkIndices \ {owner} :
                      /\ world'.chunks[i].value = world.chunks[i].value
                      /\ world'.chunks[i].color = world.chunks[i].color
                      /\ world'.chunks[i].sum = world.chunks[i].sum
                /\ SameOutside(world'.chunks[owner].value, world.chunks[owner].value, {idx})
                /\ SameOutside(world'.chunks[owner].color, world.chunks[owner].color,
                               {3 * idx, 3 * idx + 1, 3 * idx + 2})
                /\ world'.bounds = world.bounds
                /\ calls = 0 => VoxelIndexOneToOne]_vars

\* the second setVoxel wrote 255 into a chunk that already held a voxel
\* written by the first: both are stored
C26_Witness ==
    /\ ret.op = "setVoxel"
    /\ calls = 2
    /\ ret.args[4] = 255
    /\ PosInBounds(world, ret.args[1], ret.args[2], ret.args[3])
    /\ Cardinality(DOMAIN ChunkOfPos(world, ret.args[1], ret.args[2], ret.args[3]).value.at) = 2
    /\ ChunkOfPos(world, ret.args[1], ret.args[2], ret.args[3]).sum = 510

\* bit k of a cube index: samples[k].value >= ISOLEVEL
CornerSet(cubeIndex, k) == (cubeIndex \div (2 ^ k)) % 2 = 1

\* the cell with these samples and this edges word interpolates only pairs
\* of samples on opposite sides of ISOLEVEL: the densities differ and the
\* quotient is the step without clamping
EdgesCross(s, edges) ==
    \A e \in 0 .. 11 :
       EdgeBit(edges, e) =>
          \A a \in {s[EdgeEnds[e + 1][1]]}, b \in {s[EdgeEnds[e + 1][2]]} :
             /\ Crossing(a.value, b.value)
             /\ a.value # b.value
             /\ InterpolationStep(a, b) = RawStep(a, b)

\* C27: for each of the 256 cube indices, bit e of edgeTable is set iff
\* exactly one of the two corners of edge e has its bit set in the cube
\* index (the table is constant: it is examined in the initial states); and
\* in every cell a mesh call has marched, each interpolated pair of samples
\* lies on opposite sides of ISOLEVEL, so neither the equal-density step 0.5
\* nor the clamp was used.
C27_EdgesCrossIsolevel ==
    /\ calls = 0 =>
          \A cubeIndex \in 0 .. 255, e \in 0 .. 11 :
             EdgeBit(EdgeTableAt(cubeIndex), e)
                <=> (CornerSet(cubeIndex, EdgeEnds[e + 1][1])
                        # CornerSet(cubeIndex, EdgeEnds[e + 1][2]))
    /\ ret.op = "mesh" =>
          \A cubes \in {CubeIndices(gridBuffer)} :
             \A c \in DOMAIN cubes :
                EdgesCross(CellSamples(gridBuffer, c), EdgeTableAt(cubes[c]))

\* a mesh call has marched a cell that interpolated along an edge with a
\* density other than 0 and 255 at one end
C27_Witness ==
    /\ ret.op = "mesh"
    /\ geom.positionsCount > 0
    /\ \E cubes \in {CubeIndices(gridBuffer)} :
          \E c \in DOMAIN cubes :
             \E s \in {CellSamples(gridBuffer, c)} :
                \E e \in 0 .. 11 :
                   /\ EdgeBit(EdgeTableAt(cubes[c]), e)
                   /\ \E k \in 1 .. 2 : s[EdgeEnds[e + 1][k]].value \notin {0, 255}

\* the edge indices the triangle loop reads from row cubeIndex of triTable
RowEdges(cubeIndex) == {TriTableAt(cubeIndex, i) : i \in 0 .. 15} \ {-1}

\* C28: for each of the 256 cube indices, every edge index in its triTable
\* row has its bit set in the edgeTable entry of the same index (the tables
\* are constant: they are examined in the initial states); and every edge
\* point of every triangle a mesh call has output is one the call
\* interpolated for the triangle's own cell, whatever edgePoints held from
\* earlier cells and calls.
C28_TrianglesReadFreshPoints ==
    /\ calls = 0 =>
          \A cubeIndex \in 0 .. 255 :
             \A e \in RowEdges(cubeIndex) :
                e \in 0 .. 11 /\ EdgeBit(EdgeTableAt(cubeIndex), e)
    /\ ret.op = "mesh" =>
          \A cubes \in {CubeIndices(gridBuffer)} :
             \A k \in 1 .. Len(Output(geom)) :
                \A t \in {Output(geom)[k]} :
                   \A fresh \in {FreshEdgePoints(CellSamples(gridBuffer, t.cell),
                                                  EdgeTableAt(cubes[t.cell]))} :
                      /\ RowEdges(cubes[t.cell]) \subseteq DOMAIN fresh
                      /\ {t.p0, t.p1, t.p2} \subseteq {fresh[e] : e \in DOMAIN fresh}

\* a mesh call that follows another one has output a triangle of a cell
\* that interpolated only some of the twelve edge points, the others being
\* left from earlier cells
C28_Witness ==
    /\ ret.op = "mesh"
    /\ calls >= 2
    /\ edgePoints # ZeroEdgePoints
    /\ \E cubes \in {CubeIndices(gridBuffer)} :
          \E k \in 1 .. Len(Output(geom)) :
             /\ EdgeTableAt(cubes[Output(geom)[k].cell]) \notin {0, 4095}
             /\ RowEdges(cubes[Output(geom)[k].cell]) # {}

\* a raycastVoxels call of the tick model has just returned a hit
TickHit == cast.pc = "loop" /\ Called("raycastVoxels") /\ rayOut'.hit

\* a raycastVoxels call from a float origin with maxDistance > 0 has just
\* returned
FineCall == cast.pc = "idle" /\ Called("raycastVoxels") /\ ret'.args[3][1] > 0

\* the normal of result o has exactly one non-zero component, against the
\* step of its axis, and at distance o.distance the ray is on a voxel
\* boundary of that axis
NormalOfCrossedAxis(o, tOrigin, dir) ==
    \E a \in 1 .. 3 :
       /\ <<o.normalX, o.normalY, o.normalZ>>[a] = (IF dir[a] >= 0 THEN -1 ELSE 1)
       /\ \A b \in (1 .. 3) \ {a} : <<o.normalX, o.normalY, o.normalZ>>[b] = 0
       /\ dir[a] # 0
       /\ (tOrigin[a] + dir[a] * o.distance) % Scale = 0

\* a hit of the tick model: reported at the origin with a zero normal if
\* the traversal had not moved, else with the normal of the crossed axis
TickHitNormal ==
    TickHit =>
       IF cast.st = RayStart(cast.tOrigin, cast.ray[2])
       THEN /\ rayOut'.distance = 0
            /\ <<rayOut'.positionX, rayOut'.positionY, rayOut'.positionZ>> = cast.ray[1]
            /\ <<rayOut'.normalX, rayOut'.normalY, rayOut'.normalZ>> = <<0, 0, 0>>
            /\ <<rayOut'.voxelX, rayOut'.voxelY, rayOut'.voxelZ>>
                  = <<FloorToInt(cast.ray[1][1] + Half), FloorToInt(cast.ray[1][2] + Half),
                      FloorToInt(cast.ray[1][3] + Half)>>
       ELSE NormalOfCrossedAxis(rayOut', cast.tOrigin, cast.ray[2])

\* the float p is the float origin o moved by no more than the rounding
\* of o + 0.5, and is o when o + 0.5 is a float
RoundedOrigin(p, o) ==
    /\ p[2] = FineScale
    /\ (IF p[1] >= o[1] THEN p[1] - o[1] ELSE o[1] - p[1])
          <= (IF o[1] + FineScale \div 2 >= 0 THEN o[1] + FineScale \div 2
              ELSE -(o[1] + FineScale \div 2)) \div (2 ^ 24)
    /\ RoundToFloat(o[1] + FineScale \div 2) = o[1] + FineScale \div 2 => p = o

\* the voxel coordinate v is the floor of o + 0.5, up to the rounding of
\* that sum
StartVoxel(v, o) ==
    \A e \in {o[1] + FineScale \div 2} :
       \A slack \in {(IF e >= 0 THEN e ELSE -e) \div (2 ^ 24)} :
          /\ v * FineScale <= e + slack
          /\ v * FineScale + FineScale > e - slack

Occurrences(g, id, key) ==
    Cardinality({k \in 1 .. Len(CellList(g, key)) : CellList(g, key)[k] = id})

\* no object occurs twice in the sequence
NoRepeats(seq) == \A i, j \in 1 .. Len(seq) : seq[i] = seq[j] => i = j

\* C30: after construction and any sequence of addObject (for an object not
\* in the grid), removeObject and updateObject calls, for every object id:
\* objectCell[id] = k # -1 iff id occurs exactly once in the list of cell k
\* and in no other list, and objectCell[id] = -1 iff id occurs in no list;
\* every cell list is acyclic, so the loops of removeObject and queryCube
\* end, and a queryCube call has visited each object of the cells in its
\* range once.
C30_GridWellFormed ==
    hashGrid # NoHashGrid =>
       \A keys \in {0 .. hashGrid.gridSize - 1} :
          /\ \A id \in 0 .. hashGrid.maxObjects - 1 :
                /\ hashGrid.objectCell[id] \in keys \cup {-1}
                /\ \A k \in keys :
                      hashGrid.objectCell[id] = k
                         <=> /\ Occurrences(hashGrid, id, k) = 1
                             /\ \A j \in keys \ {k} : Occurrences(hashGrid, id, j) = 0
                /\ hashGrid.objectCell[id] = -1
                      <=> \A j \in keys : Occurrences(hashGrid, id, j) = 0
                /\ removeObjectReturns(hashGrid, id)
          /\ \A k \in keys :
                /\ NoRepeats(CellList(hashGrid, k))
                /\ Len(CellList(hashGrid, k)) <= hashGrid.maxObjects
          /\ \A q \in GridQueries : queryCubeReturns(hashGrid, q[1], q[2])
          /\ ret.op = "queryCube" =>
                /\ NoRepeats(ret.val)
                /\ {ret.val[i] : i \in 1 .. Len(ret.val)}
                      = {id \in 0 .. hashGrid.maxObjects - 1 :
                            hashGrid.objectCell[id]
                               \in QueryKeys(hashGrid, ret.args[1], ret.args[2])}

\* a queryCube call has visited three objects, two of them in one cell, in
\* a grid one of whose cells is empty
C30_Witness ==
    /\ hashGrid # NoHashGrid
    /\ ret.op = "queryCube"
    /\ Len(ret.val) = 3
    /\ \E k \in 0 .. hashGrid.gridSize - 1 : Len(CellList(hashGrid, k)) = 2
    /\ \E k \in 0 .. hashGrid.gridSize - 1 : hashGrid.grid[k] = -1


====
